---- MODULE Spec2Model ----
(***************************************************************************)
(* Transaction pipeline, checkpoint discipline and security contexts of    *)
(* the icetea execution core (src/icetea/app.js, src/icetea/abcihandler.js,*)
(* src/icetea/vm/js/Context.js).                                           *)
(*                                                                         *)
(* Spec        : deliver-tx over a sequence of transactions                *)
(* SpecCheckTx : App.checkTx as a function of one transaction              *)
(* SpecCtx     : contract code running inside view / pure contexts         *)
(* SpecElection: calls to the election system contract (src/unnamed)       *)
(* SpecGate    : calls to the gate system contract (src/icetea/vm/index.js)*)
(* SpecRank    : getCandidates / getValidators over stored candidate lists *)
(* SpecGuard   : contract code that tries to leave its sandbox              *)
(***************************************************************************)
EXTENDS Integers, Sequences, FiniteSets, TLC

VARIABLES
    accounts,       \* stateManager: canonical account set
    beforeTxCount,  \* notifications received by the beforeTx observer
    afterTxCount,   \* notifications received by the afterTx observer
    lastTx,         \* the transaction object after the last deliver-tx
    response,       \* what the last deliver-tx returned to the consensus engine
    trace,          \* calls made by the last deliver-tx, in order
    lastBeh,        \* what the code invoked by the last deliver-tx did
    prevAccounts,   \* canonical account set before the last deliver-tx
    ctInput,        \* SpecCheckTx: the transaction handed to checkTx
    ctBalance,      \* SpecCheckTx: balance of every account (equal for all)
    ctOut,          \* SpecCheckTx: outcome of checkTx, NotRun before the call
    stateTable,     \* SpecCtx: the state table handed to the contexts
    heap,           \* SpecCtx: the objects that storage values refer to
    stack,          \* SpecCtx: the contexts of the running (nested) invocations
    lastOp,         \* SpecCtx: the last operation contract code made, and its outcome
    elStorage,      \* SpecElection: the account state of system.election
    elBlock,        \* SpecElection: number of the current block
    elCall,         \* SpecElection: the last call made to the election contract, and its outcome
    elCalls,        \* SpecElection: number of calls that changed the stored candidates
    gateStorage,    \* SpecGate: the storage of the gate contract
    gateBlock,      \* SpecGate: number of the current block
    gateCall,       \* SpecGate: the last call made to the gate contract, and its outcome
    gateRegistered, \* SpecGate: the addresses registerProvider has accepted
    gateState,      \* SpecGate: what the gate contract stores under its other keys
    gateBalances,   \* SpecGate: balance of the gate contract and of its callers
    gateLog,        \* SpecGate: operators, request ids and callbacks so far, and the
                    \*           request-side details of the last call
    sbHost,         \* SpecGuard: the bindings and the process of the host
    sbContracts,    \* SpecGuard: the contracts deployed so far
    sbLast          \* SpecGuard: the last deployment or pure call, and its outcome

pipeVars ==
    <<accounts, beforeTxCount, afterTxCount, lastTx, response, trace, lastBeh, prevAccounts>>
checkVars == <<ctInput, ctBalance, ctOut>>
ctxVars == <<stateTable, heap, stack, lastOp>>
elVars == <<elStorage, elBlock, elCall, elCalls>>
gateVars ==
    <<gateStorage, gateBlock, gateCall, gateRegistered, gateState, gateBalances, gateLog>>
guardVars == <<sbHost, sbContracts, sbLast>>
sysVars == <<elVars, gateVars, guardVars>>
vars == <<pipeVars, checkVars, ctxVars, sysVars>>

----------------------------------------------------------------------------
(* Bounds of the model *)

MaxTx == 2          \* checkpoints opened per run
MaxDepth == 2       \* nested contract invocations alive at once
MaxValue == 1       \* largest value, fee or reported usage of a transaction
MaxRequests == 2    \* requests the gate accepts per run
InitBalance == MaxValue + 1   \* coins of the funded account in the initial state

----------------------------------------------------------------------------
(* Addresses and names *)

NoAddr == ""        \* a missing (falsy) address field
Users == {"u1", "u2"}
FreshAddrs == {"c2"}                      \* addresses deployContract can assign
AllAddrs == Users \cup {"c1", "system.election"} \cup FreshAddrs
Dotted == {"system.election", "foo.bar", "ali.c1"}   \* strings that contain '.'
Keys == {"k1"}

ReservedNamesWithoutSetState ==
    {"constructor", "__on_received", "__on_deployed", "getState", "getEnv"}
ReservedNames ==
    {"constructor", "__on_received", "__on_deployed", "getState", "setState", "getEnv"}

\* Tx.isContractCreation / Tx.isContractCall
isContractCreation(tx) == tx.op = "deploy"
isContractCall(tx) == tx.op = "call"

----------------------------------------------------------------------------
(* State manager, modelled from its contract in the specification *)

balanceOf(accts, a) == IF a \in DOMAIN accts THEN accts[a].balance ELSE 0
isContract(accts, a) == a \in DOMAIN accts /\ accts[a].mode # "none"
isRegularContract(accts, a) == a \in DOMAIN accts /\ accts[a].mode = "regular"

\* handleTransfer / tools.refectTxValueAndFee: debit value + fee, credit value
reflectTxValueAndFee(accts, from, to, value, fee) ==
    LET debited == [accts EXCEPT ![from].balance = @ - (value + fee)]
    IN IF to \in DOMAIN debited
       THEN [debited EXCEPT ![to].balance = @ + value]
       ELSE debited

\* tools.deployContract: stage a new regular contract, return its address
newAddress(accts) == CHOOSE a \in FreshAddrs : accts[a].mode = "none"
deployContract(accts, from) ==
    [accts EXCEPT ![newAddress(accts)].mode = "regular",
                  ![newAddress(accts)].deployedBy = from]

\* Alias.ensureAddress
aliasEnsureAddress(addr) == IF addr = "ali.c1" THEN "c1" ELSE addr

\* did.checkPermission: from signs itself, or a signer holds a delegation
Delegations == {<<"u2", "u1">>}    \* <<owner, delegate>>
Range(s) == {s[i] : i \in DOMAIN s}
checkPermission(from, signers) ==
    \/ from \in Range(signers)
    \/ \E s \in Range(signers) : <<from, s>> \in Delegations

\* validateAddress
validateAddress(addr) == addr \in AllAddrs

----------------------------------------------------------------------------
(* App.checkTx *)

ensureAddress(addr) == IF addr \in Dotted THEN aliasEnsureAddress(addr) ELSE addr

Reject(tx, msg) == [ok |-> FALSE, err |-> msg, tx |-> tx]
Accept(tx) == [ok |-> TRUE, err |-> "", tx |-> tx]

checkSignersAllowRedundantFrom(tx) ==
    IF Len(tx.signers) = 0 THEN "Must have at lease one signature."
    ELSE IF Len(tx.signers) > 1 /\ tx.from = NoAddr
         THEN "Must explicitly set 'from' when there are more than 1 signer."
         ELSE ""
\* lines 101-110: the signer rules; "" when they pass
checkSigners(tx) ==
    IF Len(tx.signers) = 0 THEN "Must have at lease one signature."
    ELSE IF Len(tx.signers) = 1
         THEN IF tx.from = tx.signers[1]
              THEN "No need to set 'from' to save blockchain data size."
              ELSE ""
         ELSE IF tx.from = NoAddr
              THEN "Must explicitly set 'from' when there are more than 1 signer."
              ELSE ""

\* lines 86-99: destination rules on the alias-resolved destination
checkDestination(tx, to) ==
    IF tx.to # NoAddr
    THEN IF to \in Dotted
         THEN IF to \in {"system.election"} THEN ""
              ELSE "Invalid destination alias"
         ELSE IF validateAddress(to) THEN "" ELSE "Invalid address"
    ELSE IF ~isContractCreation(tx)
         THEN "Transaction destination address is required."
         ELSE ""

enoughBalanceUnchecked(tx, accts) == TRUE
\* lines 114-117
enoughBalance(tx, accts) == ~(tx.value + tx.fee > balanceOf(accts, tx.from))

checkTx(tx, accts) ==
    IF ~tx.sigOk THEN Reject(tx, "Invalid signature")
    ELSE LET to == IF tx.to # NoAddr THEN ensureAddress(tx.to) ELSE tx.to
             tx1 == [tx EXCEPT !.to = to]
         IN IF checkDestination(tx, to) # "" THEN Reject(tx1, checkDestination(tx, to))
            ELSE IF checkSigners(tx1) # "" THEN Reject(tx1, checkSigners(tx1))
            ELSE LET tx2 == [tx1 EXCEPT !.from =
                                IF tx1.from # NoAddr THEN tx1.from ELSE tx1.signers[1]]
                 IN IF ~checkPermission(tx2.from, tx2.signers)
                    THEN Reject(tx2, "Permission denied")
                    ELSE IF ~enoughBalance(tx2, accts)
                         THEN Reject(tx2, "Not enough balance")
                         ELSE Accept(tx2)

----------------------------------------------------------------------------
(* Execution engine (contractinvoker), modelled from its contract in the   *)
(* specification: contract bodies are opaque callables.  A behaviour says  *)
(* what the invoked code does: whether staging the deployment succeeds,    *)
(* whether the code writes its storage, whether it then raises, and what   *)
(* resource usage the result reports.                                      *)

NoResult == [present |-> FALSE, data |-> "", hasGas |-> FALSE, gasUsed |-> 0,
             transferred |-> FALSE]

Behaviours ==
    {b \in [prepOk : BOOLEAN, write : BOOLEAN, fail : BOOLEAN, hasGas : BOOLEAN,
            gasUsed : 0..MaxValue] :
        /\ (~b.hasGas => b.gasUsed = 0)
        /\ (b.fail => ~b.hasGas)
        /\ (~b.prepOk => ~b.write /\ ~b.fail /\ ~b.hasGas)}

Throw(s, msg) == [s EXCEPT !.threw = TRUE, !.err = msg]

\* invoker.invokeUpdate / invoker.invokeTx on the draft's stateAccess
invoke(s, addr, how, beh) ==
    LET t == [s EXCEPT !.trace = Append(@, how)]
    IN IF ~t.hasTools THEN Throw(t, "TypeError: stateAccess is undefined")
       ELSE IF ~isContract(t.draft, addr) THEN Throw(t, "The address is not a contract")
       ELSE LET d1 == IF beh.write
                      THEN [t.draft EXCEPT ![addr].storage["k1"] = 1 - @]
                      ELSE t.draft
                t1 == [t EXCEPT !.draft = d1]
            IN IF beh.fail THEN Throw(t1, "Error: contract raised")
               ELSE [t1 EXCEPT !.result = [present |-> TRUE, data |-> "ret",
                                           hasGas |-> beh.hasGas, gasUsed |-> beh.gasUsed,
                                           transferred |-> FALSE]]

----------------------------------------------------------------------------
(* doExecTx, one operator per statement group; s carries the local state   *)
(* of the call: [threw, err, canon, draft, hasTools, tx, result, trace]    *)

\* needState decided by the kind of the payload alone
willCallContractByPayload(tx, accts) == isContractCreation(tx) \/ isContractCall(tx)

\* lines 205-207
willCallContract(tx, accts) ==
    isContractCreation(tx) \/ isContractCall(tx)
        \/ (tx.value > 0 /\ isContract(accts, tx.to))

\* lines 220-224
stagePrepare(s, beh) ==
    IF s.threw \/ ~isContractCreation(s.tx) THEN s
    ELSE IF ~beh.prepOk THEN Throw([s EXCEPT !.trace = Append(@, "prepareContract")],
                                   "Error: invalid contract source")
    ELSE IF ~s.hasTools THEN Throw(s, "TypeError: tools.deployContract is not a function")
    ELSE [s EXCEPT !.draft = deployContract(s.draft, s.tx.from),
                   !.tx.to = newAddress(s.draft),
                   !.trace = @ \o <<"prepareContract", "deployContract">>]

stageTransferOnCanonical(s) ==
    IF s.threw THEN s
    ELSE [s EXCEPT !.canon = reflectTxValueAndFee(@, s.tx.from, s.tx.to, s.tx.value, s.tx.fee),
                   !.draft = reflectTxValueAndFee(@, s.tx.from, s.tx.to, s.tx.value, s.tx.fee),
                   !.trace = Append(@, "handleTransfer")]
\* lines 226-227
stageTransfer(s) ==
    IF s.threw THEN s
    ELSE IF s.hasTools
         THEN [s EXCEPT !.draft = reflectTxValueAndFee(@, s.tx.from, s.tx.to, s.tx.value, s.tx.fee),
                        !.trace = Append(@, "refectTxValueAndFee")]
         ELSE [s EXCEPT !.canon = reflectTxValueAndFee(@, s.tx.from, s.tx.to, s.tx.value, s.tx.fee),
                        !.trace = Append(@, "handleTransfer")]

\* lines 229-244
stageInvoke(s, beh) ==
    IF s.threw THEN s
    ELSE IF isContractCreation(s.tx)
         THEN LET r == invoke(s, s.tx.to, "invokeUpdate:__on_deployed", beh)
              IN IF r.threw THEN r ELSE [r EXCEPT !.result.data = s.tx.to]
    ELSE IF isContractCall(s.tx)
         THEN IF s.tx.name \in ReservedNames
              THEN Throw(s, "Error: Calling this method directly is not allowed")
              ELSE invoke(s, s.tx.to, "invokeTx", beh)
    ELSE s

stageReceivedAnyContract(s, beh) ==
    IF s.threw THEN s
    ELSE IF s.tx.value # 0 /\ isContract(s.canon, s.tx.to)
            /\ ~isContractCreation(s.tx) /\ ~isContractCall(s.tx)
         THEN invoke(s, s.tx.to, "invokeUpdate:__on_received", beh)
         ELSE s
\* lines 246-249
stageReceived(s, beh) ==
    IF s.threw THEN s
    ELSE IF s.tx.value # 0 /\ isRegularContract(s.canon, s.tx.to)
            /\ ~isContractCreation(s.tx) /\ ~isContractCall(s.tx)
         THEN invoke(s, s.tx.to, "invokeUpdate:__on_received", beh)
         ELSE s

\* lines 251-254
stageRefund(s) ==
    IF s.threw THEN s
    ELSE IF s.result.present /\ s.result.hasGas /\ s.result.gasUsed # 0 /\ s.hasTools
         THEN [s EXCEPT !.draft = reflectTxValueAndFee(@, s.tx.from, NoAddr, 0,
                                                       -(s.tx.fee - s.result.gasUsed)),
                        !.result.hasGas = FALSE, !.result.gasUsed = 0,
                        !.trace = Append(@, "refund")]
         ELSE s

\* lines 256-266
stageEmit(s) ==
    IF s.threw THEN s
    ELSE IF s.tx.value > 0
         THEN [s EXCEPT !.result.present = TRUE, !.result.transferred = TRUE]
         ELSE s

doExecTx(s, beh) ==
    stageEmit(stageRefund(stageReceived(stageInvoke(stageTransfer(stagePrepare(s, beh)),
                                                    beh), beh)))

----------------------------------------------------------------------------
(* App.execTx *)

applyDraft(canon, patch) == patch

\* lines 174-177: checkpoint opened, draft produced when state is needed
openCheckpoint(tx, accts) ==
    LET needState == willCallContract(tx, accts)
    IN [threw |-> FALSE, err |-> "", canon |-> accts, draft |-> accts,
        hasTools |-> needState, tx |-> tx, result |-> NoResult,
        trace |-> IF needState THEN <<"checkTx", "beginCheckpoint", "produceDraft">>
                  ELSE <<"checkTx", "beginCheckpoint">>]

\* lines 186-194: what follows a doExecTx that returned
closeCheckpoint(d) ==
    [threw |-> FALSE, err |-> "", tx |-> d.tx, result |-> d.result,
     accounts |-> IF d.hasTools THEN applyDraft(d.canon, d.draft) ELSE d.canon,
     trace |-> IF d.hasTools THEN d.trace \o <<"applyDraft", "endCheckpoint">>
               ELSE Append(d.trace, "endCheckpoint"),
     begun |-> 1, ended |-> 1]

\* what is left when doExecTx raised: the exception leaves execTx at once
abortExec(d) ==
    [threw |-> TRUE, err |-> d.err, tx |-> d.tx, result |-> NoResult,
     accounts |-> d.canon, trace |-> d.trace, begun |-> 1, ended |-> 0]

execTx(accts, tx, beh) ==
    LET c == checkTx(tx, accts)
    IN IF ~c.ok
       THEN [threw |-> TRUE, err |-> c.err, tx |-> c.tx, result |-> NoResult,
             accounts |-> accts, trace |-> <<"checkTx">>, begun |-> 0, ended |-> 0]
       ELSE LET d == doExecTx(openCheckpoint(c.tx, accts), beh)
            IN IF d.threw THEN abortExec(d) ELSE closeCheckpoint(d)

----------------------------------------------------------------------------
(* Security contexts (vm/js/Context.js).  Storage values are numbers or     *)
(* references to objects of the heap; every object has the fields of       *)
(* FieldNames.  Cells 1..CanonCells hold the objects of the state table   *)
(* (1, 2, 3: the state of c1, an object in an object in the state; 4: the  *)
(* state of c2 once it has one); the invocation at depth d owns the cells  *)
(* d*CanonCells + 1..CanonCells.                                           *)

FieldNames == {"p", "q"}
IntV(n) == [t |-> "int", v |-> n]
RefV(r) == [t |-> "ref", v |-> r]
Undef == [t |-> "undef", v |-> 0]
EmptyObj == [f \in FieldNames |-> Undef]

CtxAddrs == {"c1", "c2"}
CanonCells == 4
Cells == 1..(CanonCells * (MaxDepth + 1))

Refs(obj) == {obj[f].v : f \in {g \in FieldNames : obj[g].t = "ref"}}

\* objects reachable from cell r (r included)
RECURSIVE ReachFrom(_, _, _)
ReachFrom(h, frontier, seen) ==
    IF frontier \subseteq seen THEN seen
    ELSE ReachFrom(h, UNION {Refs(h[c]) : c \in frontier}, seen \cup frontier)
Reach(h, r) == ReachFrom(h, {r}, {})

\* _.cloneDeep(stateTable[address].state) into the cells above base
Shift(obj, base) ==
    [f \in FieldNames |-> IF obj[f].t = "ref" THEN RefV(obj[f].v + base) ELSE obj[f]]
cloneShallow(h, root, base) ==
    [c \in DOMAIN h |-> IF c = root + base THEN h[root] ELSE h[c]]
cloneDeep(h, root, base) ==
    [c \in DOMAIN h |->
        IF c > base /\ (c - base) \in Reach(h, root) THEN Shift(h[c - base], base) ELSE h[c]]

\* where getState of the context built by a clone looks: the copy's root
viewRoot(root, base) == root + base

MsgProps == {"name", "params", "sender", "callType", "value", "fee", "signers"}
EnvProps == {"msg", "block", "tags", "loadContract"}
MethodProps == {"m", "toString"}
ObjectPrototype == {"toString"}      \* names every object inherits

\* contextForView, lines 68-75: the get trap of the msg proxy
viewMsgOwnKeys == {"name", "params", "sender", "callType"}
viewMsgGet(prop) ==
    IF prop \in viewMsgOwnKeys /\ prop \notin {"name", "params", "callType", "sender"}
    THEN "error"
    ELSE IF prop \in viewMsgOwnKeys THEN "ok" ELSE "undefined"

\* contextForPure, lines 115-118: a plain object
pureMsgGet(prop) == IF prop \in {"name", "params", "callType"} THEN "ok" ELSE "undefined"

\* contextForWrite, lines 7-12: a frozen deep copy of the transaction plus four fields
writeMsgGet(prop) == "ok"

\* what getEnv() returns under each context
viewEnv == {"msg", "block", "loadContract"}
pureEnv == {"msg"}
writeEnv == {"msg", "block", "tags", "loadContract"}
envOf(kind) == IF kind = "view" THEN viewEnv ELSE IF kind = "pure" THEN pureEnv ELSE writeEnv

\* the proxy of loadContract, lines 87-95 and 27-38: an inherited name is
\* returned as it is, any other name becomes a call through the worker
viewLoadContractEscalating(method) ==
    IF method \in ObjectPrototype THEN "native" ELSE "update"
viewLoadContract(method) ==
    IF method \in ObjectPrototype THEN "native" ELSE "view"
writeLoadContract(method) ==
    IF method \in ObjectPrototype THEN "native" ELSE "update"

\* the outcome of calling an operation of ctx ("ok", or "error" when it throws)
viewOpsLikeWrite(op) == IF op = "transfer" THEN "error" ELSE "ok"
\* contextForView, lines 78-108
viewOps(op) == IF op \in {"transfer", "setState"} THEN "error" ELSE "ok"
pureOpsReadable(op) == IF op \in {"getState", "hasState"} THEN "ok" ELSE "error"
\* contextForPure, lines 120-138
pureOps(op) ==
    IF op \in {"balance", "transfer", "hasState", "getState", "setState"} THEN "error" ELSE "ok"
\* contextForWrite, lines 19-61
writeOps(op) == "ok"
ctxOp(kind, op) ==
    IF kind = "view" THEN viewOps(op) ELSE IF kind = "pure" THEN pureOps(op) ELSE writeOps(op)

NoOp == [op |-> "none", kind |-> "none", outcome |-> "ok", arg |-> "", value |-> Undef]

InitStateTable ==
    [a \in CtxAddrs \cup {"u1"} |->
        [balance |-> IF a = "c1" THEN 1 ELSE 0,
         state |-> IF a = "c1" THEN 1 ELSE 0]]

InitHeap ==
    [c \in Cells |->
        IF c = 1 THEN [p |-> IntV(0), q |-> RefV(2)]
        ELSE IF c = 2 THEN [p |-> IntV(0), q |-> RefV(3)]
        ELSE IF c = 3 THEN [p |-> IntV(0), q |-> Undef]
        ELSE EmptyObj]

InitCtx ==
    /\ stateTable = InitStateTable
    /\ heap = InitHeap
    /\ stack = <<>>
    /\ lastOp = NoOp

----------------------------------------------------------------------------
(* deliver-tx (abcihandler.deliverTx) over the canonical account set *)

mkTx(from, to, value, fee, op, name, signers, sigOk) ==
    [from |-> from, to |-> to, value |-> value, fee |-> fee, op |-> op, name |-> name,
     signers |-> signers, sigOk |-> sigOk]

Amounts == 0..MaxValue
\* method names a transaction payload may carry
MethodNames ==
    {"m", "constructor", "__on_deployed", "__on_received", "getState", "setState", "getEnv"}

Transfers ==
    {mkTx(NoAddr, t, v, f, "none", "", sg, TRUE) :
        t \in {NoAddr, "u2", "c1", "system.election"}, v \in Amounts, f \in Amounts,
        sg \in {<<>>, <<"u1">>, <<"u2">>}}
Deployments ==
    {mkTx(NoAddr, NoAddr, v, f, "deploy", "", <<"u1">>, TRUE) : v \in Amounts, f \in Amounts}
Calls ==
    {mkTx(NoAddr, t, v, f, "call", n, <<"u1">>, TRUE) :
        t \in {"c1", "c2", "u2", "system.election"}, v \in Amounts, f \in Amounts,
        n \in MethodNames}
Forged == {mkTx(NoAddr, "u2", 0, 0, "none", "", <<"u1">>, FALSE)}
TxInputs == Transfers \cup Deployments \cup Calls \cup Forged

\* the behaviours that differ for tx: staging only matters to a deployment
BehavioursOf(tx) ==
    IF isContractCreation(tx) THEN Behaviours ELSE {b \in Behaviours : b.prepOk}

NoTx == mkTx(NoAddr, NoAddr, 0, 0, "none", "", <<>>, TRUE)
NoResponse == [code |-> 0, log |-> "", toTag |-> "", result |-> NoResult, tags |-> <<>>]
NoBeh == [prepOk |-> TRUE, write |-> FALSE, fail |-> FALSE, hasGas |-> FALSE, gasUsed |-> 0]

\* tx.payer: who pays the fee of the transaction
payerOf(tx) == tx.from

\* lines 46-76 of abcihandler.js
deliverTxReply(r) ==
    IF r.threw
    THEN [code |-> 1, log |-> r.err, toTag |-> "", result |-> NoResult, tags |-> <<>>]
    ELSE [code |-> 0, log |-> "",
          toTag |-> IF isContractCreation(r.tx) THEN "Buffer.from(result)" ELSE r.tx.to,
          result |-> r.result,
          tags |-> <<[key |-> "tx.from", value |-> r.tx.from],
                     [key |-> "tx.to",
                      value |-> IF isContractCreation(r.tx) THEN "Buffer.from(result)"
                                ELSE r.tx.to],
                     [key |-> "tx.payer", value |-> payerOf(r.tx)]>>]

----------------------------------------------------------------------------
(* System contracts: their state before init-chain *)

\* a call not made: the shape of elCall and gateCall
NoCall ==
    [op |-> "none", sender |-> NoAddr, key |-> "", name |-> "", value |-> 0,
     rate |-> [int |-> TRUE, v |-> 0], jail |-> [int |-> TRUE, v |-> 0],
     flag |-> FALSE, ok |-> TRUE, err |-> "", result |-> <<>>]

\* stateManager holds no account state for system.election
NoElection == [installed |-> FALSE, candidates |-> <<>>, withdraw |-> <<>>]

InitElection ==
    /\ elStorage = NoElection
    /\ elBlock = 0
    /\ elCall = [call |-> NoCall, before |-> NoElection]
    /\ elCalls = 0

\* the gate contract has stored nothing under any key
NoGate == [hasProviders |-> FALSE, providers |-> <<>>]
NoOptions == [awardAddress |-> "", encryptionPubKey |-> "", topics |-> ""]
NoGateCall ==
    [op |-> "none", sender |-> NoAddr, providerAddr |-> NoAddr, value |-> 0,
     options |-> NoOptions, ok |-> TRUE, err |-> "", defined |-> FALSE, result |-> <<>>]

MinProviderDeposit == 1             \* config.gate.minProviderDeposit

\* the accounts that deal with the gate: senders of transactions, contracts;
\* a sender holds what one registration takes
GateAddr == "system.gate"
GateFunds == MinProviderDeposit
GateContracts == {"c1", "c2"}
GateAccounts == {"u1", "u2"}
NaN == [t |-> "NaN", n |-> 0, s |-> "", o |-> <<>>]
InitGateBalances ==
    [a \in {GateAddr} \cup GateContracts \cup GateAccounts |->
        [t |-> "number", n |-> IF a \in GateAccounts THEN GateFunds ELSE 0, s |-> "", o |-> <<>>]]
NoGateDetail ==
    [requestId |-> "", path |-> "", result |-> "", receivingAddr |-> NoAddr, returned |-> "",
     found |-> FALSE, state |-> <<>>, balances |-> InitGateBalances, callbacks |-> <<>>]

InitGate ==
    /\ gateStorage = NoGate
    /\ gateBlock = 0
    /\ gateCall = [call |-> NoGateCall, before |-> NoGate, registered |-> {}]
    /\ gateRegistered = {}
    /\ gateState = <<>>
    /\ gateBalances = InitGateBalances
    /\ gateLog = [operators |-> {}, marks |-> {}, issued |-> <<>>, callbacks |-> <<>>,
                  last |-> NoGateDetail]

\* the host before any contract code has run
InitHost == [require |-> "bound", helper |-> "intact", process |-> "running", leaked |-> {}]
NoContract == [mode |-> "none", methods |-> {}]
NoRun == [kind |-> "none", mode |-> "none", attempt |-> "none", outcome |-> "ok",
          contracts |-> <<>>]
GuardAddrs == {"c1", "c2"}
InitGuard ==
    /\ sbHost = InitHost
    /\ sbContracts = [a \in GuardAddrs |-> NoContract]
    /\ sbLast = NoRun

IdleSys == InitElection /\ InitGate /\ InitGuard

InitAccounts ==
    [a \in AllAddrs |->
        [balance |-> IF a = "u1" THEN InitBalance ELSE 0,
         mode |-> IF a = "c1" THEN "regular"
                  ELSE IF a = "system.election" THEN "system" ELSE "none",
         storage |-> [k \in Keys |-> 0],
         deployedBy |-> NoAddr]]

InitPipe ==
    /\ accounts = InitAccounts
    /\ beforeTxCount = 0
    /\ afterTxCount = 0
    /\ lastTx = NoTx
    /\ response = NoResponse
    /\ trace = <<>>
    /\ lastBeh = NoBeh
    /\ prevAccounts = InitAccounts

NotRun == [ok |-> FALSE, err |-> "not run", tx |-> NoTx]

IdleCheck ==
    /\ ctInput = NoTx
    /\ ctBalance = 0
    /\ ctOut = NotRun

\* the engine sends the next request once it holds the reply to the last one
CollectReply ==
    /\ trace # <<>>
    /\ lastTx' = NoTx
    /\ response' = NoResponse
    /\ trace' = <<>>
    /\ lastBeh' = NoBeh
    /\ prevAccounts' = accounts
    /\ UNCHANGED <<accounts, beforeTxCount, afterTxCount>>
    /\ UNCHANGED <<checkVars, ctxVars, sysVars>>

DeliverTx(tx, beh) ==
    /\ isContractCreation(tx) => \E a \in FreshAddrs : accounts[a].mode = "none"
    /\ \E r \in {execTx(accounts, tx, beh)} :
          /\ accounts' = r.accounts
          /\ beforeTxCount' = beforeTxCount + r.begun
          /\ afterTxCount' = afterTxCount + r.ended
          /\ lastTx' = r.tx
          /\ response' = deliverTxReply(r)
          /\ trace' = r.trace
          /\ lastBeh' = beh
          /\ prevAccounts' = accounts
    /\ UNCHANGED <<checkVars, ctxVars, sysVars>>

Init == InitPipe /\ IdleCheck /\ InitCtx /\ IdleSys

\* one request at a time; at most MaxTx checkpoints are opened
Deliver ==
    /\ trace = <<>>
    /\ beforeTxCount < MaxTx
    /\ \E tx \in TxInputs : \E beh \in BehavioursOf(tx) : DeliverTx(tx, beh)

Next == Deliver \/ CollectReply

Spec == Init /\ [][Next]_vars

----------------------------------------------------------------------------
(* check-tx (abcihandler.checkTx -> App.checkTx) on one transaction *)

MaxSigners == 2

SignerLists == UNION {[1..n -> Users] : n \in 0..MaxSigners}

CheckInputs ==
    {mkTx(f, t, v, fe, o, "m", sg, ok) :
        f \in {NoAddr} \cup Users,
        t \in {NoAddr, "u2", "c1", "system.election", "foo.bar", "ali.c1", "0xbad"},
        v \in Amounts, fe \in Amounts, o \in {"none", "deploy", "call"},
        sg \in SignerLists, ok \in BOOLEAN}

UniformAccounts(b) == [a \in AllAddrs |-> [InitAccounts[a] EXCEPT !.balance = b]]

InitCheck ==
    /\ ctInput \in CheckInputs
    /\ ctBalance \in 0..InitBalance
    /\ ctOut = NotRun

\* lines 32-39 of abcihandler.js: {} on acceptance, {code: 1, log} on rejection
RunCheckTx ==
    /\ ctOut = NotRun
    /\ ctOut' = checkTx(ctInput, UniformAccounts(ctBalance))
    /\ UNCHANGED <<ctInput, ctBalance>>
    /\ UNCHANGED <<pipeVars, ctxVars, sysVars>>

InitSpecCheckTx == InitPipe /\ InitCheck /\ InitCtx /\ IdleSys

SpecCheckTx == InitSpecCheckTx /\ [][RunCheckTx]_vars

----------------------------------------------------------------------------
(* Contract code running inside the contexts: one action per operation the *)
(* code can make on its context.  The code may catch what an operation     *)
(* throws, so an "error" outcome does not end the invocation.              *)

Top == stack[Len(stack)]
Op(op, kind, outcome, arg, value) ==
    [op |-> op, kind |-> kind, outcome |-> outcome, arg |-> arg, value |-> value]
SetTop(f) == [stack EXCEPT ![Len(stack)] = f]
\* code is running and holds the outcome of its previous operation
Running == stack # <<>> /\ lastOp = NoOp

\* the outcome of the last operation reaches the code that asked for it
Resume ==
    /\ lastOp # NoOp
    /\ lastOp' = NoOp
    /\ UNCHANGED <<stateTable, heap, stack, pipeVars, checkVars, sysVars>>

\* build the context of a new invocation of kind at address a and enter it
PushFrame(kind, a) ==
    LET base == (Len(stack) + 1) * CanonCells
        root == stateTable[a].state      \* 0: no state yet, the context uses {}
    IN /\ heap' = IF kind = "view" /\ root # 0 THEN cloneDeep(heap, root, base) ELSE heap
       /\ stack' = Append(stack,
                     [kind |-> kind, address |-> a,
                      root |-> IF kind = "pure" THEN 0
                               ELSE IF root = 0 THEN base + 1
                               ELSE IF kind = "view" THEN viewRoot(root, base)
                               ELSE root,
                      balance |-> IF kind = "pure" THEN 0 ELSE stateTable[a].balance,
                      pending |-> EmptyObj])
       /\ lastOp' = Op("call", kind, "ok", a, Undef)
       /\ UNCHANGED stateTable

\* invokeUpdate / invokeView / invokePure from outside
StartCall(kind, a) ==
    /\ stack = <<>> /\ lastOp = NoOp
    /\ PushFrame(kind, a)
    /\ UNCHANGED <<pipeVars, checkVars, sysVars>>

\* the value getState(key) yields in frame f
stateValue(f, key) ==
    IF f.root = 0 THEN Undef
    ELSE IF f.kind = "update" /\ f.pending[key] # Undef THEN f.pending[key]
    ELSE heap[f.root][key]

GetState(key) ==
    /\ Running
    /\ lastOp' = IF ctxOp(Top.kind, "getState") = "ok"
                 THEN Op("getState", Top.kind, "ok", key, stateValue(Top, key))
                 ELSE Op("getState", Top.kind, "error", key, Undef)
    /\ UNCHANGED <<stateTable, heap, stack, pipeVars, checkVars, sysVars>>

HasState(key) ==
    /\ Running
    /\ lastOp' = Op("hasState", Top.kind, ctxOp(Top.kind, "hasState"), key, Undef)
    /\ UNCHANGED <<stateTable, heap, stack, pipeVars, checkVars, sysVars>>

ReadBalance ==
    /\ Running
    /\ lastOp' = IF ctxOp(Top.kind, "balance") = "ok"
                 THEN Op("balance", Top.kind, "ok", "", IntV(Top.balance))
                 ELSE Op("balance", Top.kind, "error", "", Undef)
    /\ UNCHANGED <<stateTable, heap, stack, pipeVars, checkVars, sysVars>>

SetState(key) ==
    /\ Running
    /\ IF ctxOp(Top.kind, "setState") = "ok"
       THEN /\ stack' = SetTop([Top EXCEPT !.pending[key] = IntV(1)])
            /\ lastOp' = Op("setState", Top.kind, "ok", key, Undef)
       ELSE /\ stack' = stack
            /\ lastOp' = Op("setState", Top.kind, "error", key, Undef)
    /\ UNCHANGED <<stateTable, heap, pipeVars, checkVars, sysVars>>

\* lines 40-45; ctx is frozen, so ctx.balance keeps the value it was built with
Transfer(to) ==
    /\ Running
    /\ IF ctxOp(Top.kind, "transfer") = "ok" /\ stateTable[Top.address].balance >= 1
       THEN /\ stateTable' = [stateTable EXCEPT ![Top.address].balance = @ - 1,
                                                ![to].balance = @ + 1]
            /\ lastOp' = Op("transfer", Top.kind, "ok", to, Undef)
       ELSE /\ stateTable' = stateTable
            /\ lastOp' = Op("transfer", Top.kind, "error", to, Undef)
    /\ UNCHANGED <<heap, stack, pipeVars, checkVars, sysVars>>

\* the code changes a field of an object that getState handed out
Mutate(cell) ==
    /\ Running
    /\ Top.kind \in {"view", "update"}
    /\ cell \in Reach(heap, Top.root) \ {Top.root}
    /\ heap[cell]["p"] = IntV(0)
    /\ heap' = [heap EXCEPT ![cell]["p"] = IntV(1)]
    /\ lastOp' = Op("mutate", Top.kind, "ok", "p", Undef)
    /\ UNCHANGED <<stateTable, stack, pipeVars, checkVars, sysVars>>

msgGet(kind, prop) ==
    IF kind = "view" THEN viewMsgGet(prop)
    ELSE IF kind = "pure" THEN pureMsgGet(prop) ELSE writeMsgGet(prop)

ReadMsg(prop) ==
    /\ Running
    /\ lastOp' = Op("readMsg", Top.kind, msgGet(Top.kind, prop), prop, Undef)
    /\ UNCHANGED <<stateTable, heap, stack, pipeVars, checkVars, sysVars>>

ReadEnv(prop) ==
    /\ Running
    /\ lastOp' = Op("readEnv", Top.kind,
                    IF prop \in envOf(Top.kind) THEN "ok" ELSE "undefined", prop, Undef)
    /\ UNCHANGED <<stateTable, heap, stack, pipeVars, checkVars, sysVars>>

\* getEnv().loadContract(a)[method](...)
loadTarget(kind, method) ==
    IF "loadContract" \notin envOf(kind) THEN "error"
    ELSE IF kind = "view" THEN viewLoadContract(method) ELSE writeLoadContract(method)

LoadCall(a, method) ==
    /\ Running
    /\ IF loadTarget(Top.kind, method) \in {"error", "native"}
       THEN /\ lastOp' = Op("loadCall", Top.kind, loadTarget(Top.kind, method), method, Undef)
            /\ UNCHANGED <<stateTable, heap, stack>>
       ELSE /\ Len(stack) < MaxDepth
            /\ PushFrame(loadTarget(Top.kind, method), a)
    /\ UNCHANGED <<pipeVars, checkVars, sysVars>>

\* the cell that holds the state of address a in the state table
StateCell(a) == IF a = "c1" THEN 1 ELSE 4

\* the invocation ends: the writes an update staged in _state reach the state
\* of its address in the state table, and the objects the context owned are
\* dropped
Return ==
    /\ Running
    /\ LET base == Len(stack) * CanonCells
           saves == Top.kind = "update" /\ Top.pending # EmptyObj
           merged == IF saves
                     THEN [heap EXCEPT ![StateCell(Top.address)] =
                              [f \in FieldNames |->
                                  IF Top.pending[f] # Undef THEN Top.pending[f]
                                  ELSE heap[Top.root][f]]]
                     ELSE heap
       IN /\ heap' = [c \in Cells |->
                         IF c > base /\ c <= base + CanonCells THEN EmptyObj ELSE merged[c]]
          /\ stateTable' = IF saves
                           THEN [stateTable EXCEPT ![Top.address].state = StateCell(Top.address)]
                           ELSE stateTable
    /\ stack' = SubSeq(stack, 1, Len(stack) - 1)
    /\ lastOp' = Op("return", Top.kind, "ok", "", Undef)
    /\ UNCHANGED <<pipeVars, checkVars, sysVars>>

NextCtx ==
    \/ \E kind \in {"update", "view", "pure"}, a \in CtxAddrs : StartCall(kind, a)
    \/ \E key \in FieldNames : GetState(key)
    \/ \E key \in FieldNames : HasState(key)
    \/ ReadBalance
    \/ \E key \in {"p"} : SetState(key)
    \/ \E to \in {"c2", "u1"} : Transfer(to)
    \/ \E cell \in Cells : Mutate(cell)
    \/ \E prop \in MsgProps : ReadMsg(prop)
    \/ \E prop \in EnvProps : ReadEnv(prop)
    \/ \E a \in CtxAddrs, method \in MethodProps : LoadCall(a, method)
    \/ Return
    \/ Resume

InitSpecCtx == InitPipe /\ IdleCheck /\ InitCtx /\ IdleSys

SpecCtx == InitSpecCtx /\ [][NextCtx]_vars

----------------------------------------------------------------------------
(* Properties of the security contexts *)

\* what the state table holds: balances, and the objects of the stored state
Canon == <<stateTable, [c \in 1..CanonCells |-> heap[c]]>>

\* the kind of the context a step runs in or builds ("none": no step of a context)
ActingKind ==
    IF Len(stack') > Len(stack) THEN stack'[Len(stack')].kind
    ELSE IF stack # <<>> /\ lastOp = NoOp THEN stack[Len(stack)].kind
    ELSE "none"

\* C4: in a view context setState and transfer always raise, and no step of a
\* view invocation changes a balance or a stored value of the state table.
C4_ViewStep ==
    ActingKind = "view"
        => /\ Canon' = Canon
           /\ lastOp'.op \in {"setState", "transfer"} => lastOp'.outcome = "error"
C4_ViewReadOnly == [][C4_ViewStep]_vars

C4_Witness ==
    /\ stack # <<>> /\ Top.kind = "view"
    /\ lastOp.op = "transfer" /\ lastOp.outcome = "error"
    /\ stateTable[Top.address].balance > 0

\* C5 (as claimed): on the msg of a view context name, params, sender and
\* callType can be read, and reading value, fee or signers raises an error.
C5_ViewMsgGuard ==
    (lastOp.op = "readMsg" /\ lastOp.kind = "view")
        => /\ lastOp.arg \in {"name", "params", "sender", "callType"} => lastOp.outcome = "ok"
           /\ lastOp.arg \in {"value", "fee", "signers"} => lastOp.outcome = "error"

\* C6: in a pure context balance, hasState, getState, setState and transfer
\* always raise, the environment has no block and no contract loader, and no
\* step of a pure invocation changes the state table or obtains a value of it.
C6_PureStep ==
    ActingKind = "pure"
        => /\ Canon' = Canon /\ heap' = heap
           /\ lastOp'.op \in {"balance", "hasState", "getState", "setState", "transfer"}
                => lastOp'.outcome = "error" /\ lastOp'.value = Undef
           /\ lastOp'.op = "readEnv" /\ lastOp'.arg \in {"block", "loadContract"}
                => lastOp'.outcome = "undefined"
           /\ lastOp'.op = "loadCall" => lastOp'.outcome = "error" /\ stack' = stack
C6_PureStateless == [][C6_PureStep]_vars

C6_Witness ==
    /\ stack # <<>> /\ Top.kind = "pure"
    /\ lastOp.op = "getState" /\ lastOp.outcome = "error"
    /\ heap[1]["p"] # IntV(0)

\* C7: every invocation nested, at any depth, in a view invocation is a view
\* invocation, and nothing run under a view root gets setState or transfer
\* to succeed.
C7_NoEscalation ==
    /\ \A i, j \in DOMAIN stack : (i < j /\ stack[i].kind = "view") => stack[j].kind = "view"
    /\ (stack # <<>> /\ stack[1].kind = "view" /\ lastOp.op \in {"setState", "transfer"})
          => lastOp.outcome = "error"

C7_Witness ==
    /\ Len(stack) = MaxDepth
    /\ \A i \in DOMAIN stack : stack[i].kind = "view"
    /\ lastOp.op = "setState" /\ lastOp.outcome = "error"

\* C8: changing an object obtained from getState in a view context, nested
\* objects included, leaves the stored state of the state table as it was.
C8_MutateStep ==
    (ActingKind = "view" /\ lastOp'.op = "mutate")
        => [c \in 1..CanonCells |-> heap'[c]] = [c \in 1..CanonCells |-> heap[c]]
C8_ViewCopyIsolated == [][C8_MutateStep]_vars

\* a view changed the copy of the innermost object; the stored one differs
C8_Witness ==
    /\ stack # <<>> /\ Top.kind = "view" /\ Top.address = "c1"
    /\ lastOp.op = "mutate"
    /\ heap[Top.root]["q"].t = "ref"
    /\ heap[heap[Top.root]["q"].v]["q"].t = "ref"
    /\ heap[heap[heap[Top.root]["q"].v]["q"].v]["p"] = IntV(1)
    /\ heap[3]["p"] = IntV(0)

----------------------------------------------------------------------------
(* Properties of the transaction pipeline *)

InTrace(op) == \E i \in DOMAIN trace : trace[i] = op
EngineInvoked ==
    \E i \in DOMAIN trace :
        trace[i] \in {"invokeTx", "invokeUpdate:__on_deployed", "invokeUpdate:__on_received"}
Failed == trace # <<>> /\ response.code # 0

\* C1: when doExecTx raises after execTx opened a checkpoint, applyDraft is not
\* called and the canonical account set equals the one before the execTx call.
C1_RollbackOnError ==
    (Failed /\ InTrace("beginCheckpoint"))
        => (~InTrace("applyDraft") /\ accounts = prevAccounts)

\* a contract that wrote its storage and raised, after value was moved in the draft
C1_Witness ==
    /\ Failed
    /\ InTrace("beginCheckpoint") /\ EngineInvoked
    /\ lastTx.value > 0
    /\ response.log = "Error: contract raised"

\* C2 (as claimed): every beginCheckpoint is matched by an endCheckpoint when
\* execTx is over, so both observers were notified equally often.
C2_CheckpointsPaired == beforeTxCount = afterTxCount

\* the sender the balance check looks at
Sender(tx) == IF tx.from # NoAddr THEN tx.from ELSE tx.signers[1]
StaticallyInvalid(tx, accts) ==
    \/ ~tx.sigOk
    \/ tx.signers = <<>>
    \/ (tx.to = NoAddr /\ tx.op # "deploy")
    \/ tx.value + tx.fee > accts[Sender(tx)].balance

\* C3: a transaction that static validation rejects (value + fee above the
\* sender's balance included) is answered with a nonzero code and a log, no
\* checkpoint is opened, no draft produced, and the account set is unchanged.
C3_InvalidNeverOpensCheckpoint ==
    (trace # <<>> /\ StaticallyInvalid(lastTx, prevAccounts))
        => /\ trace = <<"checkTx">>
           /\ accounts = prevAccounts
           /\ response.code # 0 /\ response.log # ""

C3_Witness ==
    /\ trace = <<"checkTx">>
    /\ lastTx.sigOk /\ lastTx.signers # <<>>
    /\ lastTx.value + lastTx.fee > prevAccounts[Sender(lastTx)].balance
    /\ response.log = "Not enough balance"

\* C9: a contract call naming a reserved method is rejected, the engine is not
\* invoked, and the value/fee transfer made before the name check is not
\* committed.
C9_ReservedNameRejected ==
    (trace # <<>> /\ lastTx.op = "call"
        /\ lastTx.name \in {"constructor", "__on_deployed", "__on_received",
                             "getState", "setState", "getEnv"})
        => /\ response.code # 0
           /\ ~EngineInvoked
           /\ ~InTrace("applyDraft")
           /\ accounts = prevAccounts

C9_Witness ==
    /\ lastTx.op = "call" /\ lastTx.name = "setState"
    /\ lastTx.value + lastTx.fee > 0
    /\ InTrace("refectTxValueAndFee")
    /\ response.log = "Error: Calling this method directly is not allowed"

\* C10: checkTx rejects no signer, one signer with from equal to it, several
\* signers without from; an accepted transaction ends with from = the explicit
\* from, or the sole signer when none was given.
C10_SignerRules ==
    ctOut # NotRun =>
        /\ (Len(ctInput.signers) = 0 => ~ctOut.ok)
        /\ (Len(ctInput.signers) = 1 /\ ctInput.from = ctInput.signers[1] => ~ctOut.ok)
        /\ (Len(ctInput.signers) > 1 /\ ctInput.from = NoAddr => ~ctOut.ok)
        /\ (ctOut.ok => ctOut.tx.from =
                IF ctInput.from # NoAddr THEN ctInput.from ELSE ctInput.signers[1])

C10_Witness ==
    /\ ctOut.ok
    /\ ctInput.from = NoAddr
    /\ Len(ctInput.signers) = 1
    /\ ctOut.tx.from = ctInput.signers[1]

----------------------------------------------------------------------------
(* The election system contract *)

MaxStake == 1       \* largest contribution of a voter in a stored candidate list
MaxBlock == 1       \* number of the last block
MaxCalls == 3       \* calls that change the stored candidates

\* config.election
MinValidatorDeposit == 1
MinVoterValue == 1
NumberOfValidators == 2
BankAddr == "bank"                  \* process.env.BANK_ADDR

MILLION == 1000000
validatorWithdrawLockNumOfBlock == 10
voterWithdrawLockNumOfBlock == 1

PubKeys == {"pk1", "pk2"}
CandidateNames == {"alice", "Alice", "bob"}
Blank == " "                        \* a string of white space only

\* String.prototype.trim and toLowerCase, on the strings above
trim(str) == IF str = Blank THEN "" ELSE str
toLowerCase(str) == IF str = "Alice" THEN "alice" ELSE str

\* a JS number handed to punish: an integer v, or the non-integer v + 0.5
Num(n) == [int |-> TRUE, v |-> n]
Half(n) == [int |-> FALSE, v |-> n]

\* BigInt division truncates towards zero
bigDiv(a, b) == IF a >= 0 THEN a \div b ELSE -((-a) \div b)

\* an object whose keys are strings: the sequence of its entries in insertion order
keysOf(obj) == {obj[i].key : i \in DOMAIN obj}
has(obj, k) == k \in keysOf(obj)
indexOf(obj, k) == CHOOSE i \in DOMAIN obj : obj[i].key = k
get(obj, k) == obj[indexOf(obj, k)]
put(obj, e) ==
    IF has(obj, e.key) THEN [obj EXCEPT ![indexOf(obj, e.key)] = e] ELSE Append(obj, e)
RECURSIVE delete(_, _)
delete(obj, k) ==
    IF obj = <<>> THEN <<>>
    ELSE IF Head(obj).key = k THEN Tail(obj)
    ELSE <<Head(obj)>> \o delete(Tail(obj), k)
RECURSIVE sumValues(_)
sumValues(obj) == IF obj = <<>> THEN 0 ELSE Head(obj).v + sumValues(Tail(obj))

\* the outcome of a call: it returns, or it throws and the changes it made are dropped
Returned(st, result) == [ok |-> TRUE, err |-> "", storage |-> st, result |-> result]
Thrown(st, msg) == [ok |-> FALSE, err |-> msg, storage |-> st, result |-> <<>>]

\* _rawCandidates / _rawWithdrawList: c.getState(key, {}); no c, no getState
rawCandidates(c) == [ok |-> c.isContext, v |-> c.storage.candidates]
rawWithdrawList(c) == [ok |-> c.isContext, v |-> c.storage.withdraw]
Context(st) == [isContext |-> TRUE, storage |-> st]
NoContext == [isContext |-> FALSE, storage |-> NoElection]

\* propose(pubkey, candidateName)
newCandidate(pubkey, msg, blockNumber, candidateName) ==
    [key |-> pubkey, deposit |-> msg.value, block |-> blockNumber,
     operator |-> msg.sender, name |-> candidateName, voters |-> <<>>,
     jailed |-> FALSE, jailedUntilBlock |-> 0, slashed |-> 0]

nameTaken(candidates, candidateName) ==
    \E i \in DOMAIN candidates :
        toLowerCase(candidates[i].name) = toLowerCase(candidateName)

propose(st, msg, blockNumber, pubkey0, candidateName0) ==
    LET pubkey == trim(pubkey0)
        candidateName == trim(candidateName0)
        candidates == rawCandidates(Context(st)).v
    IN  IF pubkey = "" THEN Thrown(st, "Public key is required.")
        ELSE IF candidateName = "" THEN Thrown(st, "Validator candidate name is required.")
        ELSE IF nameTaken(candidates, candidateName)
             THEN Thrown(st, "Candidate name already exists.")
        ELSE IF has(candidates, pubkey)
                /\ ~checkPermission(get(candidates, pubkey).operator, msg.signers)
             THEN Thrown(st, "Permission denied.")
        ELSE LET me == IF has(candidates, pubkey)
                       THEN [get(candidates, pubkey) EXCEPT !.deposit = @ + msg.value]
                       ELSE newCandidate(pubkey, msg, blockNumber, candidateName)
             IN  IF me.deposit < MinValidatorDeposit
                 THEN Thrown(st, "Validator must deposit at least minValidatorDeposit")
                 ELSE Returned([st EXCEPT !.candidates = put(candidates, me)], <<>>)

\* vote(voteePubkey)
voteWithoutJailCheck(st, msg, voteePubkey) ==
    LET candidates == rawCandidates(Context(st)).v
    IN  IF msg.value < MinVoterValue THEN Thrown(st, "You must attach at least minVoterValue when voting.")
        ELSE IF ~has(candidates, voteePubkey)
             THEN Thrown(st, "not a valid validator candidate public key.")
        ELSE LET votee == get(candidates, voteePubkey)
                 old == IF has(votee.voters, msg.sender) THEN get(votee.voters, msg.sender).v ELSE 0
                 voters == put(votee.voters, [key |-> msg.sender, v |-> old + msg.value])
             IN  Returned([st EXCEPT !.candidates = put(candidates, [votee EXCEPT !.voters = voters])], <<>>)

vote(st, msg, voteePubkey) ==
    LET candidates == rawCandidates(Context(st)).v
    IN  IF msg.value < MinVoterValue THEN Thrown(st, "You must attach at least minVoterValue when voting.")
        ELSE IF ~has(candidates, voteePubkey)
             THEN Thrown(st, "not a valid validator candidate public key.")
        ELSE IF get(candidates, voteePubkey).jailed
             THEN Thrown(st, "is currently jailed, please wait until it get unjail before voting.")
        ELSE LET votee == get(candidates, voteePubkey)
                 old == IF has(votee.voters, msg.sender) THEN get(votee.voters, msg.sender).v ELSE 0
                 voters == put(votee.voters, [key |-> msg.sender, v |-> old + msg.value])
             IN  Returned([st EXCEPT !.candidates = put(candidates, [votee EXCEPT !.voters = voters])], <<>>)

\* _addToWithdrawList(withdrawList, pubkey, amount, unlockBlock)
addToWithdrawList(withdrawList, pubkey, amount, unlockBlock) ==
    LET w == IF has(withdrawList, pubkey) THEN get(withdrawList, pubkey).v ELSE <<>>
        old == IF has(w, unlockBlock) THEN get(w, unlockBlock).v ELSE 0
    IN  put(withdrawList, [key |-> pubkey, v |-> put(w, [key |-> unlockBlock, v |-> old + amount])])

RECURSIVE addVoters(_, _, _)
addVoters(withdrawList, voters, unlockBlock) ==
    IF voters = <<>> THEN withdrawList
    ELSE addVoters(addToWithdrawList(withdrawList, Head(voters).key, Head(voters).v, unlockBlock),
                   Tail(voters), unlockBlock)

\* resign(pubkey); _rawWithdrawList is called with no argument.
\* setState(WITHDRAW_KEY) stores undefined: the key then holds no entry.
resign(st, msg, blockNumber, pubkey) ==
    LET candidates == rawCandidates(Context(st)).v
    IN  IF ~has(candidates, pubkey) THEN Thrown(st, "TypeError: not a constructor")
        ELSE IF ~checkPermission(get(candidates, pubkey).operator, msg.signers)
             THEN Thrown(st, "Permission denied.")
        ELSE LET me == get(candidates, pubkey)
                 raw == rawWithdrawList(NoContext)
             IN  IF ~raw.ok THEN Thrown(st, "TypeError: Cannot read property 'getState' of undefined")
                 ELSE LET mine == addToWithdrawList(raw.v, pubkey, me.deposit,
                                       blockNumber + validatorWithdrawLockNumOfBlock)
                          withdrawList == addVoters(mine, me.voters,
                                       blockNumber + voterWithdrawLockNumOfBlock)
                      IN  Returned([st EXCEPT !.candidates = delete(candidates, pubkey),
                                              !.withdraw = <<>>], <<>>)

\* the clones of all the candidates, whatever their jailed flag
getCandidatesRawUnfiltered(candidates, includeJailed) == candidates

\* _getCandidates(candidates, includeJailed): clones of the candidates, in key order
getCandidatesRaw(candidates, includeJailed) ==
    SelectSeq(candidates, LAMBDA c : includeJailed \/ ~c.jailed)

withCapacity(c, capacity) ==
    [k \in DOMAIN c \cup {"capacity"} |-> IF k = "capacity" THEN capacity ELSE c[k]]

\* _.orderBy(candidates, ['capacity', 'block'], ['desc', 'asc']): a stable sort
precedesAscending(a, b) ==
    \/ a.capacity < b.capacity
    \/ a.capacity = b.capacity /\ a.block < b.block
precedes(a, b) ==
    \/ a.capacity > b.capacity
    \/ a.capacity = b.capacity /\ a.block < b.block

RECURSIVE insertOrdered(_, _)
insertOrdered(sorted, c) ==
    IF sorted = <<>> THEN <<c>>
    ELSE IF precedes(c, Head(sorted)) THEN <<c>> \o sorted
    ELSE <<Head(sorted)>> \o insertOrdered(Tail(sorted), c)

RECURSIVE orderByFrom(_, _)
orderByFrom(sorted, rest) ==
    IF rest = <<>> THEN sorted
    ELSE orderByFrom(insertOrdered(sorted, Head(rest)), Tail(rest))
orderBy(candidates) == orderByFrom(<<>>, candidates)

\* _populateCapacity(candidates, sorted)
populateCapacity(candidates, sorted) ==
    LET populated == [i \in DOMAIN candidates |->
                         withCapacity(candidates[i],
                                      candidates[i].deposit + sumValues(candidates[i].voters))]
    IN  IF sorted THEN orderBy(populated) ELSE populated

\* _getValidators(candidates)
getValidatorsUncut(candidates) == populateCapacity(candidates, TRUE)
getValidatorsOf(candidates) ==
    LET sorted == populateCapacity(candidates, TRUE)
    IN  IF Len(sorted) > NumberOfValidators THEN SubSeq(sorted, 1, NumberOfValidators)
        ELSE sorted

\* contract.getCandidates(includeJailed) and contract.getValidators()
getCandidates(st, includeJailed) ==
    populateCapacity(getCandidatesRaw(rawCandidates(Context(st)).v, includeJailed), TRUE)
getValidators(st) == getValidatorsOf(getCandidates(st, FALSE))

\* exports.getValidators()
exportsGetValidators(st) == getValidatorsOf(getCandidatesRaw(st.candidates, FALSE))

\* exports.ondeploy(state, { validators }): the second parameter is destructured
NoDeployOptions == [defined |-> FALSE, validators |-> <<>>]
genesisName(moreThan1, i) ==
    IF ~moreThan1 THEN "Genesis Validator"
    ELSE IF i = 0 THEN "Genesis Validator 0"
    ELSE IF i = 1 THEN "Genesis Validator 1" ELSE "Genesis Validator 2"

RECURSIVE seed(_, _, _, _)
seed(c, validators, i, moreThan1) ==
    IF i >= Len(validators) THEN c
    ELSE seed(put(c, [key |-> validators[i + 1], deposit |-> MinValidatorDeposit, block |-> 0,
                      operator |-> BankAddr, name |-> genesisName(moreThan1, i),
                      voters |-> <<>>, jailed |-> FALSE, jailedUntilBlock |-> 0,
                      slashed |-> 0]),
              validators, i + 1, moreThan1)

ondeploy(state, options) ==
    IF ~options.defined
    THEN Thrown(state, "TypeError: Cannot destructure property 'validators' of 'undefined'")
    ELSE Returned([state EXCEPT !.candidates =
                       seed(<<>>, options.validators, 0, Len(options.validators) > 1)], <<>>)

\* App.installSystemContracts(): installSystemContract(key), then contract.ondeploy(state)
installSystemContracts(st) == ondeploy([st EXCEPT !.installed = TRUE], NoDeployOptions)

\* handler.initChain({ consensusParams, validators })
initChain(st, validators) ==
    LET r == installSystemContracts(st)
    IN  IF r.ok THEN Returned(r.storage, validators) ELSE r

\* exports.punish(pubkey, blockNum, tags, { slashedRatePerMillion, jailedBlockCount })
slash(candidate, slashedRatePerMillion) ==
    IF slashedRatePerMillion > 0
    THEN LET slashedAmount == bigDiv(candidate.deposit * MILLION, slashedRatePerMillion)
         IN  [candidate EXCEPT !.slashed = @ + slashedAmount, !.deposit = @ - slashedAmount]
    ELSE candidate

jail(candidate, blockNum, jailedBlockCount) ==
    IF jailedBlockCount > 0
    THEN LET pendingJailedBlock ==
                 IF candidate.jailedUntilBlock # 0 /\ candidate.jailedUntilBlock > blockNum
                 THEN candidate.jailedUntilBlock - blockNum ELSE 0
         IN  [candidate EXCEPT !.jailed = TRUE,
                               !.jailedUntilBlock = blockNum + pendingJailedBlock + jailedBlockCount]
    ELSE candidate

punish(st, pubkey, blockNum, slashedRatePerMillion, jailedBlockCount) ==
    IF \/ ~slashedRatePerMillion.int \/ slashedRatePerMillion.v < 0
       \/ slashedRatePerMillion.v > MILLION
    THEN Thrown(st, "Invalid slashedRatePerMillion.")
    ELSE IF ~jailedBlockCount.int \/ jailedBlockCount.v < 0
         THEN Thrown(st, "Invalid jailedBlockCount.")
    ELSE IF slashedRatePerMillion.v = 0 \/ jailedBlockCount.v = 0
         THEN Thrown(st, "Either slashedRate or jailedBlockCount must be specified.")
    ELSE IF ~has(st.candidates, pubkey) THEN Thrown(st, "Validator not found. Cannot punish.")
    ELSE LET candidate == jail(slash(get(st.candidates, pubkey), slashedRatePerMillion.v),
                               blockNum, jailedBlockCount.v)
         IN  Returned([st EXCEPT !.candidates = put(st.candidates, candidate)], <<>>)

----------------------------------------------------------------------------
(* Calls to the election contract *)

ElectionSenders == {"u1", "u2"}
Stakes == 0..MinValidatorDeposit     \* attached values, below the minimum and at it
Msg(sender, value) == [sender |-> sender, signers |-> <<sender>>, value |-> value]
ValidRates == {Num(0), Num(500000), Num(MILLION)}
ValidCounts == {Num(0), Num(1)}
InvalidRates == {Num(-1), Num(MILLION + 1), Half(1)}
InvalidCounts == {Num(-1), Half(1)}
\* a malformed argument is tried with one choice of the other arguments
ProposeInputs ==
    (ElectionSenders \X Stakes \X PubKeys \X CandidateNames)
        \cup {<<"u1", MinValidatorDeposit, Blank, "alice">>,
              <<"u1", MinValidatorDeposit, "pk1", Blank>>}
PunishInputs ==
    (PubKeys \X ValidRates \X ValidCounts)
        \cup ({"pk1"} \X InvalidRates \X {Num(1)})
        \cup ({"pk1"} \X {Num(MILLION)} \X InvalidCounts)
ValidatorSets == {<<>>, <<"pk1">>, <<"pk1", "pk2">>}

ElectionIdle == elCall.call.op = "none"
ElectionReady == ElectionIdle /\ elStorage.installed

\* the caller receives the outcome r of the call c
Outcome(c, r) ==
    /\ r.storage.candidates # elStorage.candidates => elCalls < MaxCalls
    /\ elStorage' = r.storage
    /\ elCalls' = IF r.storage.candidates # elStorage.candidates THEN elCalls + 1 ELSE elCalls
    /\ elCall' = [call |-> [c EXCEPT !.ok = r.ok, !.err = r.err, !.result = r.result],
                  before |-> elStorage]
    /\ UNCHANGED <<elBlock, gateVars, pipeVars, checkVars, ctxVars,
                   guardVars>>

InitChain ==
    /\ ElectionIdle
    /\ ~elStorage.installed
    /\ \E validators \in ValidatorSets :
        \E r \in {initChain(elStorage, validators)} :
            Outcome([NoCall EXCEPT !.op = "initChain", !.result = validators], r)

Propose ==
    /\ ElectionReady
    /\ \E in \in ProposeInputs :
        \E r \in {propose(elStorage, Msg(in[1], in[2]), elBlock, in[3], in[4])} :
            Outcome([NoCall EXCEPT !.op = "propose", !.sender = in[1], !.value = in[2],
                                   !.key = in[3], !.name = in[4]], r)

Vote ==
    /\ ElectionReady
    /\ \E sender \in ElectionSenders, value \in Stakes, pubkey \in PubKeys :
        \E r \in {vote(elStorage, Msg(sender, value), pubkey)} :
            Outcome([NoCall EXCEPT !.op = "vote", !.sender = sender, !.value = value,
                                   !.key = pubkey], r)

Resign ==
    /\ ElectionReady
    /\ \E sender \in ElectionSenders, pubkey \in PubKeys :
        \E r \in {resign(elStorage, Msg(sender, 0), elBlock, pubkey)} :
            Outcome([NoCall EXCEPT !.op = "resign", !.sender = sender, !.key = pubkey], r)

GetCandidates ==
    /\ ElectionReady
    /\ \E includeJailed \in BOOLEAN :
        Outcome([NoCall EXCEPT !.op = "getCandidates", !.flag = includeJailed],
                Returned(elStorage, getCandidates(elStorage, includeJailed)))

GetValidators ==
    /\ ElectionReady
    /\ Outcome([NoCall EXCEPT !.op = "getValidators"],
               Returned(elStorage, getValidators(elStorage)))

ExportsGetValidators ==
    /\ ElectionReady
    /\ Outcome([NoCall EXCEPT !.op = "exports.getValidators"],
               Returned(elStorage, exportsGetValidators(elStorage)))

Punish ==
    /\ ElectionReady
    /\ \E in \in PunishInputs :
        \E r \in {punish(elStorage, in[1], elBlock, in[2], in[3])} :
            Outcome([NoCall EXCEPT !.op = "punish", !.key = in[1], !.rate = in[2],
                                   !.jail = in[3]], r)

\* beginBlock: app.setBlock
NextBlock ==
    /\ ElectionReady
    /\ elBlock < MaxBlock
    /\ elBlock' = elBlock + 1
    /\ UNCHANGED <<elStorage, elCall, elCalls, gateVars, pipeVars, checkVars, ctxVars,
                   guardVars>>

\* the caller is done with the outcome of its call
ElectionResume ==
    /\ ~ElectionIdle
    /\ elCall' = [call |-> NoCall, before |-> NoElection]
    /\ UNCHANGED <<elStorage, elBlock, elCalls, gateVars, pipeVars, checkVars, ctxVars,
                   guardVars>>

NextElection ==
    \/ InitChain \/ Propose \/ Vote \/ Resign \/ GetCandidates \/ GetValidators
    \/ ExportsGetValidators \/ Punish \/ NextBlock \/ ElectionResume

InitSpecElection == InitPipe /\ IdleCheck /\ InitCtx /\ IdleSys

SpecElection == InitSpecElection /\ [][NextElection]_vars

----------------------------------------------------------------------------
(* getCandidates and getValidators as functions of the stored candidates *)

MaxCandidates == NumberOfValidators + 1   \* candidates stored when the ranking is asked for
RankKeys == <<"pk1", "pk2", "pk3", "pk4">>
RankNames == <<"alice", "bob", "carol", "dave">>
VoterLists ==
    {<<>>, <<[key |-> "u1", v |-> 1]>>, <<[key |-> "u2", v |-> MaxStake]>>,
     <<[key |-> "u1", v |-> 1], [key |-> "u2", v |-> MaxStake]>>}

\* registration blocks never decrease along the order of insertion
RegistrationBlocks(n) ==
    {b \in [1..n -> 0..MaxBlock] : \A i \in 1..n : \A j \in 1..n : i < j => b[i] <= b[j]}

StoredCandidate(i, deposit, block, voters, jailed) ==
    [key |-> RankKeys[i], deposit |-> deposit, block |-> block,
     operator |-> "u1", name |-> RankNames[i], voters |-> voters,
     jailed |-> jailed, jailedUntilBlock |-> IF jailed THEN block + 1 ELSE 0,
     slashed |-> 0]

InitSpecRank ==
    /\ InitPipe /\ IdleCheck /\ InitCtx /\ InitGate /\ InitGuard
    /\ \E n \in 0..MaxCandidates :
        \E d \in [1..n -> MinValidatorDeposit..(MaxStake + 1)], v \in [1..n -> VoterLists],
           j \in [1..n -> BOOLEAN], b \in RegistrationBlocks(n) :
            elStorage = [installed |-> TRUE,
                         candidates |-> [i \in 1..n |->
                                            StoredCandidate(i, d[i], b[i], v[i], j[i])],
                         withdraw |-> <<>>]
    /\ elBlock = MaxBlock
    /\ elCall = [call |-> NoCall, before |-> NoElection]
    /\ elCalls = 0

NextRank == GetCandidates \/ GetValidators \/ ExportsGetValidators

SpecRank == InitSpecRank /\ [][NextRank]_vars

----------------------------------------------------------------------------
(* Properties of the election contract *)

Called == elCall.call
StoredBefore == elCall.before.candidates
StoredNow == elStorage.candidates
contribution(candidate, voter) ==
    IF has(candidate.voters, voter) THEN get(candidate.voters, voter).v ELSE 0
pending(withdrawList, k, unlockBlock) ==
    IF has(withdrawList, k) /\ has(get(withdrawList, k).v, unlockBlock)
    THEN get(get(withdrawList, k).v, unlockBlock).v ELSE 0
Permitted(candidate) == checkPermission(candidate.operator, <<Called.sender>>)

\* C11: resign(pubkey) at block b, made with the operator's permission on a
\* candidate that has voters, succeeds; the stored withdrawal list then holds the
\* candidate's deposit under pubkey with unlock block b + 10 and every voter's
\* contribution under the voter with unlock block b + 1, and getCandidates no
\* longer returns the candidate.
C11_ResignMovesStake ==
    (/\ Called.op = "resign"
     /\ has(StoredBefore, Called.key)
     /\ Permitted(get(StoredBefore, Called.key))
     /\ get(StoredBefore, Called.key).voters # <<>>)
    => LET me == get(StoredBefore, Called.key)
       IN  /\ Called.ok
           /\ pending(elStorage.withdraw, Called.key,
                      elBlock + validatorWithdrawLockNumOfBlock) = me.deposit
           /\ \A i \in DOMAIN me.voters :
                  pending(elStorage.withdraw, me.voters[i].key,
                          elBlock + voterWithdrawLockNumOfBlock) = me.voters[i].v
           /\ \A i \in DOMAIN getCandidates(elStorage, TRUE) :
                  getCandidates(elStorage, TRUE)[i].key # Called.key

votersOf(candidates) == [i \in DOMAIN candidates |-> candidates[i].voters]
totalOf(candidate) == sumValues(candidate.voters)

\* C12: vote fails when the attached value is below minVoterValue, when the key is
\* not a candidate and when the candidate is jailed, and then no voter map changes;
\* a successful vote raises voters[sender] of the target by exactly the attached
\* value and changes nothing else; no call makes the total contribution of a
\* jailed candidate grow.
C12_VoteRules ==
    /\ Called.op = "vote" =>
        /\ (\/ Called.value < MinVoterValue
            \/ ~has(StoredBefore, Called.key)
            \/ (has(StoredBefore, Called.key) /\ get(StoredBefore, Called.key).jailed))
           => (~Called.ok /\ votersOf(StoredNow) = votersOf(StoredBefore))
        /\ Called.ok =>
            /\ has(StoredBefore, Called.key)
            /\ DOMAIN StoredNow = DOMAIN StoredBefore
            /\ \A i \in DOMAIN StoredNow :
                IF StoredBefore[i].key = Called.key
                THEN /\ [StoredNow[i] EXCEPT !.voters = <<>>]
                            = [StoredBefore[i] EXCEPT !.voters = <<>>]
                     /\ \A voter \in ElectionSenders :
                            contribution(StoredNow[i], voter) =
                                contribution(StoredBefore[i], voter)
                                    + (IF voter = Called.sender THEN Called.value ELSE 0)
                ELSE StoredNow[i] = StoredBefore[i]
    /\ Called.op # "none" =>
        \A i \in DOMAIN StoredBefore :
            (StoredBefore[i].jailed /\ has(StoredNow, StoredBefore[i].key))
                => totalOf(get(StoredNow, StoredBefore[i].key)) <= totalOf(StoredBefore[i])

\* a vote for a jailed candidate that already has a voter is refused
C12_Witness ==
    /\ Called.op = "vote" /\ ~Called.ok /\ Called.value >= MinVoterValue
    /\ has(StoredBefore, Called.key)
    /\ get(StoredBefore, Called.key).jailed
    /\ totalOf(get(StoredBefore, Called.key)) > 0

Listed(includeJailed) ==
    {StoredNow[i].key : i \in {k \in DOMAIN StoredNow : includeJailed \/ ~StoredNow[k].jailed}}
Ranked(r) ==
    \A i \in DOMAIN r : \A j \in DOMAIN r :
        i < j => \/ r[i].capacity > r[j].capacity
                 \/ r[i].capacity = r[j].capacity /\ r[i].block <= r[j].block

\* C13: every candidate getCandidates returns has capacity = deposit + the sum of
\* its voters' contributions; the list is ordered by capacity descending, equal
\* capacities by registration block ascending; candidates equal in both keep the
\* order in which they are stored, so the stored candidates fix the order.
C13_CandidatesRanked ==
    Called.op = "getCandidates" =>
        LET r == Called.result
        IN  /\ {r[i].key : i \in DOMAIN r} = Listed(Called.flag)
            /\ Len(r) = Cardinality(Listed(Called.flag))
            /\ \A i \in DOMAIN r :
                   /\ r[i].deposit = get(StoredNow, r[i].key).deposit
                   /\ r[i].block = get(StoredNow, r[i].key).block
                   /\ r[i].capacity = r[i].deposit
                        + contribution(get(StoredNow, r[i].key), "u1")
                        + contribution(get(StoredNow, r[i].key), "u2")
            /\ Ranked(r)
            /\ \A i \in DOMAIN r : \A j \in DOMAIN r :
                   (i < j /\ r[i].capacity = r[j].capacity /\ r[i].block = r[j].block)
                       => indexOf(StoredNow, r[i].key) < indexOf(StoredNow, r[j].key)

\* three candidates are returned: the last stored one first, and two of equal
\* capacity in the order of their registration blocks
C13_Witness ==
    /\ Called.op = "getCandidates" /\ Len(Called.result) = 3
    /\ Called.result[1].key = "pk3"
    /\ Called.result[1].capacity > Called.result[2].capacity
    /\ Called.result[2].capacity = Called.result[3].capacity
    /\ Called.result[2].block < Called.result[3].block
    /\ Called.result[1].voters # <<>>

\* C14: getValidators, the contract method and the exported function, returns at
\* most numberOfValidators entries: the first entries of the list getCandidates
\* gives, so that no candidate of that list left out has a larger capacity than
\* one returned.
C14_ValidatorsAreTopRanked ==
    Called.op \in {"getValidators", "exports.getValidators"} =>
        LET r == Called.result
            all == getCandidates(elStorage, FALSE)
        IN  /\ Len(r) <= NumberOfValidators
            /\ Len(r) = IF Len(all) < NumberOfValidators THEN Len(all) ELSE NumberOfValidators
            /\ \A i \in DOMAIN r : r[i] = all[i]
            /\ \A k \in Listed(FALSE) \ {r[i].key : i \in DOMAIN r} :
                   \A i \in DOMAIN r :
                       get(StoredNow, k).deposit + totalOf(get(StoredNow, k)) <= r[i].capacity

\* the exported function leaves out one of three candidates that are not jailed
C14_Witness ==
    /\ Called.op = "exports.getValidators"
    /\ Cardinality(Listed(FALSE)) > NumberOfValidators
    /\ Len(Called.result) = NumberOfValidators

JailedNow == {StoredNow[i].key : i \in {j \in DOMAIN StoredNow : StoredNow[j].jailed}}
ReturnedKeys == {Called.result[i].key : i \in DOMAIN Called.result}

\* C32: neither the contract method getValidators nor the exported getValidators
\* returns a candidate whose jailed flag is set, and getCandidates returns jailed
\* candidates only when called with includeJailed = true; a candidate that
\* punish has jailed is in no validator set returned from then on.
C32_JailedNeverValidator ==
    /\ Called.op \in {"getValidators", "exports.getValidators"} =>
           /\ \A i \in DOMAIN Called.result : ~Called.result[i].jailed
           /\ ReturnedKeys \cap JailedNow = {}
    /\ Called.op = "getCandidates" /\ ~Called.flag =>
           /\ \A i \in DOMAIN Called.result : ~Called.result[i].jailed
           /\ ReturnedKeys \cap JailedNow = {}
\* two candidates proposed, one of them jailed by punish since and still within
\* its jail period: the contract method returns the other one alone
C32_Witness ==
    /\ Called.op = "getValidators" /\ Called.ok
    /\ Len(StoredNow) = 2
    /\ \E k \in JailedNow : get(StoredNow, k).jailedUntilBlock > elBlock
    /\ Cardinality(JailedNow) = 1
    /\ Len(Called.result) = 1

ValidNumber(n) == n.int /\ n.v >= 0

\* C15: punish rejects a slashedRatePerMillion or jailedBlockCount that is
\* negative, not an integer or out of range, and a call in which both are zero; a
\* call in which exactly one of the two is nonzero is accepted and applied.
C15_PunishArguments ==
    (Called.op = "punish" /\ has(StoredBefore, Called.key)) =>
        LET valid == /\ ValidNumber(Called.rate) /\ Called.rate.v <= MILLION
                     /\ ValidNumber(Called.jail)
        IN  /\ ~valid => ~Called.ok
            /\ (valid /\ Called.rate.v = 0 /\ Called.jail.v = 0) => ~Called.ok
            /\ (valid /\ (Called.rate.v = 0) # (Called.jail.v = 0)) =>
                   /\ Called.ok
                   /\ Called.jail.v > 0 => get(StoredNow, Called.key).jailed
                   /\ Called.rate.v > 0 =>
                          get(StoredNow, Called.key).slashed
                              # get(StoredBefore, Called.key).slashed

\* C16: after punish at block b with jailedBlockCount n > 0 the candidate is
\* jailed, with jailedUntilBlock = previousUntil + n when previousUntil > b and
\* b + n otherwise; the period never gets shorter.
C16_JailExtends ==
    (/\ Called.op = "punish" /\ has(StoredBefore, Called.key)
     /\ ValidNumber(Called.rate) /\ Called.rate.v <= MILLION
     /\ ValidNumber(Called.jail) /\ Called.jail.v > 0)
    => LET previousUntil == get(StoredBefore, Called.key).jailedUntilBlock
           now == get(StoredNow, Called.key)
       IN  /\ now.jailed
           /\ now.jailedUntilBlock = IF previousUntil > elBlock
                                     THEN previousUntil + Called.jail.v
                                     ELSE elBlock + Called.jail.v
           /\ now.jailedUntilBlock >= previousUntil

\* C17: every stored candidate has a deposit of at least minValidatorDeposit,
\* and so never a negative one.
C17_DepositAtLeastMinimum ==
    \A i \in DOMAIN StoredNow : StoredNow[i].deposit >= MinValidatorDeposit

OtherUses(candidates, pubkey, candidateName) ==
    \E i \in DOMAIN candidates :
        /\ candidates[i].key # pubkey
        /\ toLowerCase(candidates[i].name) = toLowerCase(candidateName)

\* C18: propose on a registered key, made with the operator's permission and a
\* non-empty name no other candidate uses, succeeds and raises the deposit by the
\* attached value; propose on an unregistered key creates a candidate with
\* deposit = attached value, block = current block, operator = sender; propose
\* with the name of another candidate, ignoring case, is rejected.
C18_ProposeRules ==
    (Called.op = "propose" /\ trim(Called.key) # "" /\ trim(Called.name) # "") =>
        /\ OtherUses(StoredBefore, Called.key, Called.name) => ~Called.ok
        /\ (/\ has(StoredBefore, Called.key)
            /\ Permitted(get(StoredBefore, Called.key))
            /\ ~OtherUses(StoredBefore, Called.key, Called.name))
           => /\ Called.ok
              /\ get(StoredNow, Called.key).deposit =
                     get(StoredBefore, Called.key).deposit + Called.value
        /\ (~has(StoredBefore, Called.key) /\ Called.ok)
           => /\ has(StoredNow, Called.key)
              /\ get(StoredNow, Called.key).deposit = Called.value
              /\ get(StoredNow, Called.key).block = elBlock
              /\ get(StoredNow, Called.key).operator = Called.sender

\* C19: after init-chain with validator set V the system contracts are installed,
\* the election contract holds exactly one candidate per validator of V, each with
\* deposit = minValidatorDeposit, registration block 0 and the treasury address as
\* operator, and init-chain returns its inputs.
C19_GenesisSeedsValidators ==
    Called.op = "initChain" =>
        /\ Called.ok
        /\ elStorage.installed
        /\ {StoredNow[i].key : i \in DOMAIN StoredNow} = Range(Called.result)
        /\ Len(StoredNow) = Len(Called.result)
        /\ \A i \in DOMAIN StoredNow :
               /\ StoredNow[i].deposit = MinValidatorDeposit
               /\ StoredNow[i].block = 0
               /\ StoredNow[i].operator = BankAddr

----------------------------------------------------------------------------
(* The gate system contract *)

\* the values an object of the gate holds: numbers, strings, objects
NumberV(n) == [t |-> "number", n |-> n, s |-> "", o |-> <<>>]
StringV(str) == [t |-> "string", n |-> 0, s |-> str, o |-> <<>>]
ObjectV(obj) == [t |-> "object", n |-> 0, s |-> "", o |-> obj]
Undefined == [t |-> "undefined", n |-> 0, s |-> "", o |-> <<>>]
prop(obj, k) == IF has(obj, k) THEN get(obj, k).v ELSE Undefined

\* _getProviders(c) = c.getState(PROVIDERS_KEY, {}), _saveProviders(c, p) = c.setState(PROVIDERS_KEY, p)
getProviders(st) == IF st.hasProviders THEN st.providers ELSE <<>>
saveProviders(st, providers, providerAddr, p) == [hasProviders |-> TRUE, providers |-> p]

\* _assignOptions(p, options)
assignOptions(p, options) ==
    LET p1 == IF options.awardAddress # ""
              THEN put(p, [key |-> "awardAddress", v |-> StringV(options.awardAddress)]) ELSE p
        p2 == IF options.encryptionPubKey # ""
              THEN put(p1, [key |-> "encryptionPubKey", v |-> StringV(options.encryptionPubKey)])
              ELSE p1
    IN  IF options.topics # ""
        THEN put(p2, [key |-> "encryptionPubKey", v |-> StringV(options.topics)]) ELSE p2

\* registerProvider(providerAddr, options)
registerProvider(st, msg, providerAddr0, options) ==
    LET providerAddr == IF providerAddr0 = NoAddr THEN msg.sender ELSE providerAddr0
        providers == getProviders(st)
    IN  IF msg.value < MinProviderDeposit
        THEN Thrown(st, "Gate Provider must deposit at least minProviderDeposit.")
        ELSE IF has(providers, providerAddr) THEN Thrown(st, "Provider already exists.")
        ELSE LET p == assignOptions(<<[key |-> "deposit", v |-> NumberV(msg.value)],
                                      [key |-> "operator", v |-> StringV(msg.sender)]>>,
                                    options)
             IN  Returned(saveProviders(st, providers, providerAddr, p), p)

\* getProvider(providerAddr)
getProvider(st, providerAddr) == prop(getProviders(st), providerAddr)

UnregistrationLock == 1             \* config.gate.unregistrationLock

\* what the contract works on during one call: its providers key, its other
\* keys, the balances; a call that throws leaves all three as they were
World(st, state, balances) == [storage |-> st, state |-> state, balances |-> balances]
GateReturned(w, result, callbacks) ==
    [ok |-> TRUE, err |-> "", world |-> w, result |-> result, callbacks |-> callbacks]
GateThrown(w, msg) ==
    [ok |-> FALSE, err |-> msg, world |-> w, result |-> Undefined, callbacks |-> <<>>]

\* !v and v.k of JavaScript
truthy(v) ==
    \/ v.t = "object"
    \/ v.t = "number" /\ v.n # 0
    \/ v.t = "string" /\ v.s # ""
field(v, k) == IF v.t = "object" THEN prop(v.o, k) ELSE Undefined

\* the block and msg a helper is handed, or is not handed
Env(msg, blockNumber) == [defined |-> TRUE, msg |-> msg, blockNumber |-> blockNumber]
NoEnv == [defined |-> FALSE, msg |-> [sender |-> NoAddr, signers |-> <<>>, value |-> 0],
          blockNumber |-> 0]

\* this.getState(key, defVal), this.setState(key, value), this.deleteState(key)
getState(w, key, defVal) == IF has(w.state, key) THEN get(w.state, key).v ELSE defVal
setState(w, key, value) == [w EXCEPT !.state = put(w.state, [key |-> key, v |-> value])]
deleteState(w, key) == [w EXCEPT !.state = delete(w.state, key)]

\* this.transfer(to, value): balance - value and balance + value of JavaScript
minus(a, v) == IF a.t = "number" /\ v.t = "number" THEN NumberV(a.n - v.n) ELSE NaN
plus(a, v) == IF a.t = "number" /\ v.t = "number" THEN NumberV(a.n + v.n) ELSE NaN
transfer(w, to, value) ==
    LET debited == [w.balances EXCEPT ![GateAddr] = minus(@, value)]
    IN  [w EXCEPT !.balances = [debited EXCEPT ![to] = plus(@, value)]]

\* _getProviderWithCheck(context, providerAddr, block, msg)
getProviderWithCheck(w, providerAddr, env) ==
    LET providers == getProviders(w.storage)
        p == prop(providers, providerAddr)
        failed(msg) == [ok |-> FALSE, err |-> msg, p |-> <<>>, providers |-> providers]
    IN  IF ~truthy(p) \/ ~truthy(field(p, "operator"))
        THEN failed("Invalid provider address.")
        ELSE IF ~env.defined THEN failed("TypeError: Cannot read property 'signers' of undefined")
        ELSE IF ~checkPermission(field(p, "operator").s, env.msg.signers)
        THEN failed("Permission denied")
        ELSE [ok |-> TRUE, err |-> "", p |-> p.o, providers |-> providers]

\* _setProviderProp(context, providerAddr, prop, value)
setProviderProp(w, providerAddr, name, value) ==
    LET r == getProviderWithCheck(w, providerAddr, NoEnv)
    IN  IF ~r.ok THEN GateThrown(w, r.err)
        ELSE LET p == put(r.p, [key |-> name, v |-> value])
             IN  GateReturned([w EXCEPT !.storage =
                                   saveProviders(w.storage, r.providers, providerAddr, p)],
                              ObjectV(p), <<>>)

\* changeProviderOptions(providerAddr, options): _assignOptions is handed the
\* pair [p, providers], and p is taken out of what it returns
changeProviderOptions(w, env, providerAddr0, options) ==
    LET providerAddr == IF providerAddr0 = NoAddr THEN env.msg.sender ELSE providerAddr0
        r == getProviderWithCheck(w, providerAddr, env)
    IN  IF ~r.ok THEN GateThrown(w, r.err)
        ELSE GateReturned([w EXCEPT !.storage =
                               saveProviders(w.storage, r.providers, providerAddr, r.p)],
                          Undefined, <<>>)

\* pauseProvider(providerAddr)
pauseProvider(w, env, providerAddr0) ==
    LET providerAddr == IF providerAddr0 = NoAddr THEN env.msg.sender ELSE providerAddr0
        r == setProviderProp(w, providerAddr, "paused", NumberV(env.blockNumber))
    IN  IF r.ok THEN GateReturned(r.world, Undefined, <<>>) ELSE r

\* unpauseProvider(providerAddr)
unpauseProvider(w, env, providerAddr0) ==
    LET providerAddr == IF providerAddr0 = NoAddr THEN env.msg.sender ELSE providerAddr0
        r == getProviderWithCheck(w, providerAddr, env)
    IN  IF ~r.ok THEN GateThrown(w, r.err)
        ELSE IF ~truthy(prop(r.p, "paused")) THEN GateThrown(w, "Provider is not paused.")
        ELSE GateReturned([w EXCEPT !.storage =
                               saveProviders(w.storage, r.providers, providerAddr,
                                             delete(r.p, "paused"))],
                          Undefined, <<>>)

\* unregisterProvider(providerAddr)
unregisterProvider(w, env, providerAddr0) ==
    LET providerAddr == IF providerAddr0 = NoAddr THEN env.msg.sender ELSE providerAddr0
        r == setProviderProp(w, providerAddr, "unregistered", NumberV(env.blockNumber))
    IN  IF r.ok THEN GateReturned(r.world, Undefined, <<>>) ELSE r

\* withdrawForProvider(providerAddr, receivingAddr) without its checks
withdrawForProviderUnchecked(w, env, providerAddr0, receivingAddr0) ==
    LET rAddr == IF receivingAddr0 = NoAddr THEN env.msg.sender ELSE receivingAddr0
        paid == transfer(w, rAddr, prop(getProviders(w.storage), "deposit"))
    IN  GateReturned([paid EXCEPT !.storage = NoGate], Undefined, <<>>)
\* withdrawForProvider(providerAddr, receivingAddr)
withdrawForProvider(w, env, providerAddr0, receivingAddr0) ==
    LET providerAddr == IF providerAddr0 = NoAddr THEN env.msg.sender ELSE providerAddr0
        r == getProviderWithCheck(w, providerAddr, env)
    IN  IF ~r.ok THEN GateThrown(w, r.err)
        ELSE IF ~truthy(prop(r.p, "unregistered"))
        THEN GateThrown(w, "You must unregister the provider first.")
        ELSE IF prop(r.p, "unregistered").n + UnregistrationLock < env.blockNumber
        THEN GateThrown(w, "Please wait to block waitTill to withdraw.")
        ELSE LET rAddr == IF receivingAddr0 = NoAddr THEN env.msg.sender ELSE receivingAddr0
                 paid == transfer(w, rAddr, Undefined)
             IN  GateReturned([paid EXCEPT !.storage =
                                   saveProviders(w.storage, delete(r.providers, providerAddr),
                                                 providerAddr, r.p)],
                              Undefined, <<>>)

\* getContractInfo(addr, errorMessage): the account must hold a contract
getContractInfo(addr) == addr \in GateContracts

\* request(path, opts); path is a string, or an object with path and data
requestWithoutCount(w, msg, path, opts) ==
    LET p == IF truthy(field(path, "path")) THEN field(path, "path") ELSE path
        d == IF truthy(field(path, "path")) THEN field(path, "data") ELSE Undefined
        options == put(opts, [key |-> "requester", v |-> StringV(msg.sender)])
        requestData == <<[key |-> "path", v |-> p], [key |-> "data", v |-> d],
                         [key |-> "options", v |-> ObjectV(options)]>>
        numKey == msg.sender \o "_c"
        lastNum == getState(w, numKey, NumberV(-1))
        currentNum == lastNum.n + 1
        requestId == msg.sender \o "_" \o ToString(currentNum)
    IN  IF ~getContractInfo(msg.sender)
        THEN GateThrown(w, "This function must be called from a contract.")
        ELSE GateReturned(setState(w, requestId, ObjectV(requestData)),
                          StringV(requestId), <<>>)
request(w, msg, path, opts) ==
    LET p == IF truthy(field(path, "path")) THEN field(path, "path") ELSE path
        d == IF truthy(field(path, "path")) THEN field(path, "data") ELSE Undefined
        options == put(opts, [key |-> "requester", v |-> StringV(msg.sender)])
        requestData == <<[key |-> "path", v |-> p], [key |-> "data", v |-> d],
                         [key |-> "options", v |-> ObjectV(options)]>>
        numKey == msg.sender \o "_c"
        lastNum == getState(w, numKey, NumberV(-1))
        currentNum == lastNum.n + 1
        requestId == msg.sender \o "_" \o ToString(currentNum)
    IN  IF ~getContractInfo(msg.sender)
        THEN GateThrown(w, "This function must be called from a contract.")
        ELSE GateReturned(setState(setState(w, numKey, NumberV(currentNum)),
                                   requestId, ObjectV(requestData)),
                          StringV(requestId), <<>>)

\* getRequest(requestId)
getRequest(w, requestId) == getState(w, requestId, Undefined)

\* setResult(requestId, result); the callback of the requester runs before the
\* request is deleted, and may itself send setResult for the same id (reenter)
RECURSIVE setResult(_, _, _, _, _)
setResult(w, msg, requestId, result, reenter) ==
    LET providers == getProviders(w.storage)
        requestData == getState(w, requestId, Undefined)
        requester == field(field(requestData, "options"), "requester").s
        callback == [requester |-> requester, requestId |-> requestId, data |-> requestData,
                     result |-> result, pending |-> has(w.state, requestId)]
        nested == IF reenter THEN setResult(w, [msg EXCEPT !.sender = requester],
                                            requestId, result, FALSE)
                  ELSE GateReturned(w, Undefined, <<>>)
    IN  IF ~has(providers, msg.sender) THEN GateThrown(w, "Provider not registered.")
        ELSE IF ~truthy(requestData) THEN GateThrown(w, "Request no longer exists.")
        ELSE IF ~nested.ok THEN GateThrown(w, nested.err)
        ELSE GateReturned(deleteState(nested.world, requestId), Undefined,
                          <<callback>> \o nested.callbacks)

----------------------------------------------------------------------------
(* Calls to the gate contract *)

GateSenders == {"u1", "u2"}
ProviderAddrs == {"u1", "u2", "p1"}
GateOptions ==
    {NoOptions, [NoOptions EXCEPT !.awardAddress = "u2"], [NoOptions EXCEPT !.topics = "t1"]}
Deposits == 0..(MinProviderDeposit + 1)
\* request: a contract with a string path, a contract with an object path, an account
RequestInputs ==
    {<<"c1", StringV("p1")>>,
     <<"c2", ObjectV(<<[key |-> "path", v |-> StringV("p1")],
                       [key |-> "data", v |-> StringV("d1")]>>)>>,
     <<"u1", StringV("p1")>>}
RequestIds == {"c1_0", "c1_1", "c2_0", "c3_0"}

GateIdle == gateCall.call.op = "none"
GateWorld == World(gateStorage, gateState, gateBalances)
TheAddr(sender, providerAddr) == IF providerAddr = NoAddr THEN sender ELSE providerAddr

\* deliver-tx moves the value of a transaction to the contract before the call,
\* and check-tx has rejected a value the sender does not hold
RegisterProvider ==
    /\ GateIdle
    /\ \E sender \in GateSenders, value \in Deposits,
          providerAddr \in ProviderAddrs \cup {NoAddr}, options \in GateOptions :
        \E r \in {registerProvider(gateStorage, Msg(sender, value), providerAddr, options)} :
            /\ value <= gateBalances[sender].n
            /\ gateStorage' = r.storage
            /\ gateCall' = [call |-> [NoGateCall EXCEPT !.op = "registerProvider",
                                          !.sender = sender, !.value = value,
                                          !.providerAddr = IF providerAddr = NoAddr
                                                           THEN sender ELSE providerAddr,
                                          !.options = options, !.ok = r.ok, !.err = r.err],
                            before |-> gateStorage, registered |-> gateRegistered]
            /\ gateRegistered' =
                   IF r.ok THEN gateRegistered \cup {IF providerAddr = NoAddr THEN sender
                                                     ELSE providerAddr}
                   ELSE gateRegistered
            /\ gateBalances' =
                   IF r.ok
                   THEN [gateBalances EXCEPT ![sender] = minus(@, NumberV(value)),
                                             ![GateAddr] = plus(@, NumberV(value))]
                   ELSE gateBalances
            /\ gateLog' =
                   [gateLog EXCEPT
                       !.operators =
                           IF r.ok /\ TheAddr(sender, providerAddr) \notin gateRegistered
                           THEN @ \cup {<<TheAddr(sender, providerAddr), sender>>} ELSE @,
                       !.last = [NoGateDetail EXCEPT !.state = gateState,
                                                     !.balances = gateBalances]]
    /\ UNCHANGED <<gateBlock, gateState, elVars, pipeVars, checkVars, ctxVars,
                   guardVars>>

GetProvider ==
    /\ GateIdle
    /\ \E providerAddr \in ProviderAddrs :
        \E p \in {getProvider(gateStorage, providerAddr)} :
            gateCall' = [call |-> [NoGateCall EXCEPT !.op = "getProvider",
                                       !.providerAddr = providerAddr,
                                       !.defined = (p.t # "undefined"), !.result = p.o],
                         before |-> gateStorage, registered |-> gateRegistered]
    /\ UNCHANGED <<gateStorage, gateBlock, gateRegistered, gateState, gateBalances, gateLog,
                   elVars, pipeVars, checkVars, ctxVars,
                   guardVars>>

\* what a call c with the details d and the outcome r leaves behind
GateOutcome(c, d, r) ==
    /\ gateStorage' = r.world.storage
    /\ gateState' = r.world.state
    /\ gateBalances' = r.world.balances
    /\ gateCall' = [call |-> [c EXCEPT !.ok = r.ok, !.err = r.err],
                    before |-> gateStorage, registered |-> gateRegistered]
    /\ gateRegistered' = IF c.op = "withdrawForProvider" /\ r.ok
                         THEN gateRegistered \ {c.providerAddr} ELSE gateRegistered
    /\ gateLog' =
           [operators |-> IF c.op = "withdrawForProvider" /\ r.ok
                          THEN {o \in gateLog.operators : o[1] # c.providerAddr}
                          ELSE gateLog.operators,
            marks |-> IF ~r.ok THEN gateLog.marks
                      ELSE IF c.op = "pauseProvider"
                      THEN gateLog.marks \cup {<<c.providerAddr, "paused", gateBlock>>}
                      ELSE IF c.op = "unregisterProvider"
                      THEN gateLog.marks \cup {<<c.providerAddr, "unregistered", gateBlock>>}
                      ELSE IF c.op = "unpauseProvider"
                      THEN {m \in gateLog.marks : ~(m[1] = c.providerAddr /\ m[2] = "paused")}
                      ELSE IF c.op = "withdrawForProvider"
                      THEN {m \in gateLog.marks : m[1] # c.providerAddr}
                      ELSE gateLog.marks,
            issued |-> IF c.op = "request" /\ r.ok
                       THEN Append(gateLog.issued, [caller |-> c.sender, id |-> r.result.s])
                       ELSE gateLog.issued,
            callbacks |-> gateLog.callbacks \o r.callbacks,
            last |-> [d EXCEPT !.state = gateState, !.balances = gateBalances,
                               !.callbacks = r.callbacks,
                               !.returned = IF r.result.t = "string" THEN r.result.s ELSE ""]]
    /\ UNCHANGED <<gateBlock, elVars, pipeVars, checkVars, ctxVars,
                   guardVars>>

ProviderCall(op, sender, providerAddr) ==
    [NoGateCall EXCEPT !.op = op, !.sender = sender,
                       !.providerAddr = TheAddr(sender, providerAddr)]

ChangeProviderOptions ==
    /\ GateIdle
    /\ \E sender \in GateSenders, providerAddr \in ProviderAddrs \cup {NoAddr},
          options \in GateOptions :
        GateOutcome([ProviderCall("changeProviderOptions", sender, providerAddr)
                         EXCEPT !.options = options],
                    NoGateDetail,
                    changeProviderOptions(GateWorld, Env(Msg(sender, 0), gateBlock),
                                          providerAddr, options))

PauseProvider ==
    /\ GateIdle
    /\ \E sender \in GateSenders, providerAddr \in ProviderAddrs \cup {NoAddr} :
        GateOutcome(ProviderCall("pauseProvider", sender, providerAddr), NoGateDetail,
                    pauseProvider(GateWorld, Env(Msg(sender, 0), gateBlock), providerAddr))

UnpauseProvider ==
    /\ GateIdle
    /\ \E sender \in GateSenders, providerAddr \in ProviderAddrs \cup {NoAddr} :
        GateOutcome(ProviderCall("unpauseProvider", sender, providerAddr), NoGateDetail,
                    unpauseProvider(GateWorld, Env(Msg(sender, 0), gateBlock), providerAddr))

UnregisterProvider ==
    /\ GateIdle
    /\ \E sender \in GateSenders, providerAddr \in ProviderAddrs \cup {NoAddr} :
        GateOutcome(ProviderCall("unregisterProvider", sender, providerAddr), NoGateDetail,
                    unregisterProvider(GateWorld, Env(Msg(sender, 0), gateBlock), providerAddr))

WithdrawForProvider ==
    /\ GateIdle
    /\ \E sender \in GateSenders, providerAddr \in ProviderAddrs \cup {NoAddr},
          receivingAddr \in {NoAddr, "u2"} :
        GateOutcome(ProviderCall("withdrawForProvider", sender, providerAddr),
                    [NoGateDetail EXCEPT !.receivingAddr = receivingAddr],
                    withdrawForProvider(GateWorld, Env(Msg(sender, 0), gateBlock),
                                        providerAddr, receivingAddr))

Request ==
    /\ GateIdle
    /\ Len(gateLog.issued) < MaxRequests
    /\ \E in \in RequestInputs :
        GateOutcome([NoGateCall EXCEPT !.op = "request", !.sender = in[1]],
                    [NoGateDetail EXCEPT !.path = field(in[2], "path").s \o in[2].s],
                    request(GateWorld, Msg(in[1], 0), in[2], <<>>))

GetRequest ==
    /\ GateIdle
    /\ \E requestId \in RequestIds :
        GateOutcome([NoGateCall EXCEPT !.op = "getRequest"],
                    [NoGateDetail EXCEPT !.requestId = requestId,
                         !.found = getRequest(GateWorld, requestId).t = "object"],
                    GateReturned(GateWorld, Undefined, <<>>))

SetResult ==
    /\ GateIdle
    /\ \E sender \in GateSenders \cup {"c1"}, requestId \in RequestIds, reenter \in BOOLEAN :
        GateOutcome([NoGateCall EXCEPT !.op = "setResult", !.sender = sender],
                    [NoGateDetail EXCEPT !.requestId = requestId, !.result = "x"],
                    setResult(GateWorld, Msg(sender, 0), requestId, StringV("x"), reenter))

\* begin-block of the next block
GateNextBlock ==
    /\ GateIdle
    /\ gateBlock < MaxBlock
    /\ gateBlock' = gateBlock + 1
    /\ UNCHANGED <<gateStorage, gateCall, gateRegistered, gateState, gateBalances, gateLog,
                   elVars, pipeVars, checkVars, ctxVars,
                   guardVars>>

\* the caller is done with the outcome of its call
GateResume ==
    /\ ~GateIdle
    /\ gateCall' = [call |-> NoGateCall, before |-> NoGate, registered |-> {}]
    /\ gateLog' = [gateLog EXCEPT !.last = NoGateDetail]
    /\ UNCHANGED <<gateStorage, gateBlock, gateRegistered, gateState, gateBalances,
                   elVars, pipeVars, checkVars, ctxVars,
                   guardVars>>

NextGate ==
    \/ RegisterProvider \/ GetProvider \/ ChangeProviderOptions \/ PauseProvider
    \/ UnpauseProvider \/ UnregisterProvider \/ WithdrawForProvider
    \/ Request \/ GetRequest \/ SetResult \/ GateNextBlock \/ GateResume

InitSpecGate == InitPipe /\ IdleCheck /\ InitCtx /\ IdleSys

SpecGate == InitSpecGate /\ [][NextGate]_vars

----------------------------------------------------------------------------
(* Properties of the gate contract *)

\* C20: after a successful registerProvider for address A, getProvider(A) returns
\* a record with operator = sender and deposit = attached value; every further
\* registerProvider for A is rejected while A is registered; registering another
\* address B leaves the record of A in place.
C20_ProviderRegisteredOnce ==
    gateCall.call.op = "registerProvider" =>
        LET c == gateCall.call
            recorded == getProvider(gateStorage, c.providerAddr)
        IN  /\ c.ok =>
                /\ recorded.t = "object"
                /\ prop(recorded.o, "operator") = StringV(c.sender)
                /\ prop(recorded.o, "deposit") = NumberV(c.value)
            /\ c.providerAddr \in gateCall.registered => ~c.ok
            /\ c.ok => \A a \in ProviderAddrs \ {c.providerAddr} :
                           getProvider(gateStorage, a) = getProvider(gateCall.before, a)

\* what the calls so far have made of a provider address
GateBefore == World(gateCall.before, gateLog.last.state, gateLog.last.balances)
OperatorsOf(addr) == {o[2] : o \in {x \in gateLog.operators : x[1] = addr}}
ByOperator(c) ==
    /\ c.providerAddr \in gateCall.registered
    /\ \E o \in OperatorsOf(c.providerAddr) : checkPermission(o, <<c.sender>>)
MarkedAt(addr, mark) == {m[3] : m \in {x \in gateLog.marks : x[1] = addr /\ x[2] = mark}}

Issued == gateLog.issued
IssuedBy(caller, n) == {i \in 1..n : Issued[i].caller = caller}

\* C22: the k-th successful request of a caller (k from 0) returns the id
\* '<caller>_<k>' and stores the request under it; the stored counter of a
\* caller is the number of its requests so far less one, so it never decreases;
\* no two requests receive the same id.
C22_RequestIdsNeverReused ==
    /\ \A i \in DOMAIN Issued :
           Issued[i].id = Issued[i].caller \o "_"
                              \o ToString(Cardinality(IssuedBy(Issued[i].caller, i - 1)))
    /\ \A i, j \in DOMAIN Issued : i # j => Issued[i].id # Issued[j].id
    /\ \A caller \in GateContracts :
           getState(GateWorld, caller \o "_c", NumberV(-1))
               = NumberV(Cardinality(IssuedBy(caller, Len(Issued))) - 1)
    /\ gateCall.call.op = "request" /\ gateCall.call.ok =>
           LET stored == getRequest(GateWorld, gateLog.last.returned)
           IN  /\ gateLog.last.returned = Issued[Len(Issued)].id
               /\ ~has(gateLog.last.state, gateLog.last.returned)
               /\ stored.t = "object"
               /\ field(stored, "path") = StringV(gateLog.last.path)
               /\ field(field(stored, "options"), "requester") = StringV(gateCall.call.sender)

\* the second request of one contract, made while a provider is registered
C22_Witness ==
    /\ gateCall.call.op = "request" /\ gateCall.call.ok
    /\ Len(Issued) = 2
    /\ Issued[1].caller = Issued[2].caller
    /\ gateLog.last.returned = gateCall.call.sender \o "_1"
    /\ gateRegistered # {}

\* what the last call was about
GateCalled == gateCall.call
PendingBefore(requestId) ==
    /\ \E i \in DOMAIN Issued : Issued[i].id = requestId
    /\ getRequest(GateBefore, requestId).t = "object"

\* C23: the first setResult(r, x) a registered provider sends for a pending
\* request r succeeds, calls the requester's onOffchainData with (r, the stored
\* request data, x) and deletes the stored request; setResult for an id that is
\* not pending, consumed or never requested, fails with a 'no longer exists'
\* error; setResult from a sender that is not a registered provider fails and
\* leaves the request pending.
C23_SetResultConsumesRequest ==
    GateCalled.op = "setResult" =>
        LET r == gateLog.last.requestId
            data == getRequest(GateBefore, r)
        IN  /\ GateCalled.sender \in gateCall.registered /\ PendingBefore(r) =>
                /\ GateCalled.ok
                /\ \E i \in DOMAIN gateLog.last.callbacks :
                       /\ gateLog.last.callbacks[i].requester
                              = field(field(data, "options"), "requester").s
                       /\ gateLog.last.callbacks[i].requestId = r
                       /\ gateLog.last.callbacks[i].data = data
                       /\ gateLog.last.callbacks[i].result = StringV(gateLog.last.result)
                /\ getRequest(GateWorld, r).t = "undefined"
            /\ GateCalled.sender \in gateCall.registered /\ ~PendingBefore(r) =>
                /\ ~GateCalled.ok
                /\ GateCalled.err = "Request no longer exists."
            /\ GateCalled.sender \notin gateCall.registered =>
                /\ ~GateCalled.ok
                /\ gateState = gateLog.last.state

\* the record getProvider returns for the provider of the last call
RecordNow == getProvider(gateStorage, GateCalled.providerAddr)
Stores(record, options) ==
    /\ options.awardAddress # "" =>
           field(record, "awardAddress") = StringV(options.awardAddress)
    /\ options.encryptionPubKey # "" =>
           field(record, "encryptionPubKey") = StringV(options.encryptionPubKey)
    /\ options.topics # "" => field(record, "topics") = StringV(options.topics)

\* C30: for a registered provider, pauseProvider and unregisterProvider called
\* at block b with the permission of its operator succeed and record b as the
\* paused-at and the unregistered-at block; unpauseProvider clears the paused
\* mark and fails when the provider is not paused; changeProviderOptions stores
\* the given options in the record; each of them, called without the operator's
\* permission, fails and leaves the providers as they were.
C30_ProviderLifecycle ==
    LET c == GateCalled
    IN  /\ c.op = "pauseProvider" /\ ByOperator(c) =>
               c.ok /\ field(RecordNow, "paused") = NumberV(gateBlock)
        /\ c.op = "unregisterProvider" /\ ByOperator(c) =>
               c.ok /\ field(RecordNow, "unregistered") = NumberV(gateBlock)
        /\ c.op = "unpauseProvider" /\ ByOperator(c) =>
               IF MarkedAt(c.providerAddr, "paused") = {}
               THEN ~c.ok /\ gateStorage = gateCall.before
               ELSE c.ok /\ field(RecordNow, "paused") = Undefined
        /\ c.op = "changeProviderOptions" /\ ByOperator(c) =>
               c.ok /\ Stores(RecordNow, c.options)
        /\ c.op \in {"pauseProvider", "unregisterProvider", "unpauseProvider",
                     "changeProviderOptions"} /\ ~ByOperator(c) =>
               ~c.ok /\ gateStorage = gateCall.before

----------------------------------------------------------------------------
(* Properties of deliver-tx: its reply, the refund, the lifecycle hooks *)

Delivered == trace # <<>>
RanDoExecTx == \E i \in DOMAIN trace : trace[i] = "beginCheckpoint"
Count(what) == Cardinality({i \in DOMAIN trace : trace[i] = what})
TagValues(key) == {response.tags[i].value : i \in {j \in DOMAIN response.tags :
                                                      response.tags[j].key = key}}

\* C26: a successful deliver-tx returns tags that contain tx.from, tx.to and
\* tx.payer, where tx.to carries the destination address and, for a contract
\* creation, the address newly assigned to the contract, the one written into
\* the first slot of the execution result; a failed deliver-tx returns a
\* nonzero code with a log and no tags.
C26_SystemTags ==
    Delivered =>
        IF response.code = 0
        THEN /\ TagValues("tx.from") = {lastTx.from}
             /\ TagValues("tx.payer") = {payerOf(lastTx)}
             /\ TagValues("tx.to") = {lastTx.to}
             /\ isContractCreation(lastTx) =>
                    /\ lastTx.to \in FreshAddrs
                    /\ response.result.data = lastTx.to
        ELSE response.log # "" /\ response.tags = <<>>

Invoked ==
    Count("invokeTx") + Count("invokeUpdate:__on_deployed")
        + Count("invokeUpdate:__on_received") > 0

\* C27: whenever the invocation result of a transaction reports a used amount
\* g with 0 <= g <= fee, g = 0 included, the fee less g is refunded: after a
\* successful execTx the sender holds its previous balance less value less g,
\* and the returned result carries no usage field.
C27_RefundsUnusedFee ==
    Delivered /\ response.code = 0 /\ Invoked
        /\ lastBeh.hasGas /\ lastBeh.gasUsed <= lastTx.fee /\ lastTx.to # lastTx.from =>
            /\ balanceOf(accounts, lastTx.from)
                   = balanceOf(prevAccounts, lastTx.from) - lastTx.value - lastBeh.gasUsed
            /\ ~response.result.hasGas

C31_InvokeImpliesDraft ==
    Delivered /\ RanDoExecTx =>
        /\ Invoked =>
               /\ Count("produceDraft") = 1
               /\ response.log \notin {"TypeError: stateAccess is undefined",
                                       "TypeError: tools.deployContract is not a function"}
               /\ response.code = 0 => Count("applyDraft") = 1
        /\ ( /\ lastTx.value # 0 /\ isRegularContract(prevAccounts, lastTx.to)
             /\ ~isContractCreation(lastTx) /\ ~isContractCall(lastTx) ) =>
               willCallContract(lastTx, prevAccounts)
        /\ Count("produceDraft") = 0 =>
               /\ ~isContractCreation(lastTx) /\ ~isContractCall(lastTx)
               /\ ~Invoked
               /\ Count("handleTransfer") = 1 /\ Count("applyDraft") = 0
\* value sent to a regular contract: the draft was produced before the hook ran
\* and applied after it; the contract's write and the credit are in the accounts
C31_Witness ==
    /\ Delivered /\ response.code = 0
    /\ lastTx.value > 0 /\ lastTx.to = "c1" /\ lastTx.op = "none" /\ lastBeh.write
    /\ trace = <<"checkTx", "beginCheckpoint", "produceDraft", "refectTxValueAndFee",
                 "invokeUpdate:__on_received", "applyDraft", "endCheckpoint">>
    /\ accounts["c1"].storage # prevAccounts["c1"].storage
    /\ balanceOf(accounts, "c1") = balanceOf(prevAccounts, "c1") + lastTx.value

----------------------------------------------------------------------------
(* Properties of transfer in an update context *)

\* C29: in an update context transfer(to, v) lowers the balance of the
\* executing contract in the state table by v, raises the recipient's by v and
\* leaves every other balance as it was, and the balance the context reports
\* after the transfer is the debited balance of the contract.  (The tags of
\* the context are not part of the model.)
C29_TransferStep ==
    /\ lastOp'.op = "transfer" /\ lastOp'.kind = "update" /\ lastOp'.outcome = "ok"
    /\ stateTable' # stateTable
    => LET a == stack[Len(stack)].address
           to == lastOp'.arg
       IN  /\ stateTable'[a].balance = stateTable[a].balance - 1
           /\ stateTable'[to].balance = stateTable[to].balance + 1
           /\ \A other \in DOMAIN stateTable \ {a, to} : stateTable'[other] = stateTable[other]
           /\ stack'[Len(stack')].balance = stateTable'[a].balance
C29_TransferMovesBalance == [][C29_TransferStep]_vars

(***************************************************************************)
(* SpecGuard: the guard of the contract runners (vm/index.js, getGuard)    *)
(* and the contracts of the guard tests.  The JS guard itself              *)
(* (vm/js/guard) is modelled from the side-channel rule of the execution   *)
(* engine: an attempt to reach outside the sandbox is detected and becomes *)
(* an execution error.                                                     *)
(***************************************************************************)
\* ContractMode of icetea-common
ContractModes == {"JS_RAW", "JS_DECORATED", "WASM"}

\* what the code of a method or of a constructor tries
PureAttempts == {"require = undefined", "isNil = undefined", "usegas = undefined"}
DeployAttempts == {"new Function('return process')().exit()",
                   "this.constructor.constructor('return process')().exit()",
                   "new Function('return process.mainModule.require')()",
                   "new Function('return global')()"}
\* the attempts are JavaScript: the source of a WASM contract cannot express them
AttemptsOf(mode, attempts) == IF mode = "WASM" THEN {"none"} ELSE attempts \cup {"none"}

\* the guard a runner gets: none for WASM, the JS guard otherwise (condition inverted)
getGuardInverted(mode) == IF mode = "WASM" THEN "js/guard" ELSE "none"

\* exports.getGuard
getGuard(mode) == IF mode = "WASM" THEN "none" ELSE "js/guard"

\* whether the guard turns the attempt into an error
detects(guard, attempt) == guard = "js/guard" /\ attempt # "none"

\* what the attempt does to the host when nothing stops it
escape(host, attempt) ==
    CASE attempt = "require = undefined" -> [host EXCEPT !.require = "undefined"]
      [] attempt \in {"isNil = undefined", "usegas = undefined"} ->
            [host EXCEPT !.helper = "undefined"]
      [] attempt \in {"new Function('return process')().exit()",
                      "this.constructor.constructor('return process')().exit()"} ->
            [host EXCEPT !.process = "exited"]
      [] attempt = "new Function('return process.mainModule.require')()" ->
            [host EXCEPT !.leaked = @ \cup {"require"}]
      [] attempt = "new Function('return global')()" ->
            [host EXCEPT !.leaked = @ \cup {"global"}]
      [] OTHER -> host

\* run code under the guard of its mode
runGuarded(host, mode, attempt) ==
    IF detects(getGuard(mode), attempt)
    THEN [ok |-> FALSE, host |-> host]
    ELSE [ok |-> TRUE, host |-> escape(host, attempt)]

GuardRun(kind, mode, attempt, r) ==
    [kind |-> kind, mode |-> mode, attempt |-> attempt,
     outcome |-> IF r.ok THEN "ok" ELSE "error", contracts |-> sbContracts]

\* tweb3.deploy(mode, src): the constructor runs; a failed deployment leaves no contract
GuardDeploy ==
    /\ sbHost.process = "running"
    /\ \E addr \in GuardAddrs, mode \in ContractModes :
         /\ sbContracts[addr] = NoContract
         /\ \E attempt \in AttemptsOf(mode, DeployAttempts),
               methods \in {AttemptsOf(mode, {}), AttemptsOf(mode, PureAttempts)} :
              LET r == runGuarded(sbHost, mode, attempt)
              IN /\ sbHost' = r.host
                 /\ sbContracts' =
                        IF r.ok
                        THEN [sbContracts EXCEPT ![addr] = [mode |-> mode, methods |-> methods]]
                        ELSE sbContracts
                 /\ sbLast' = GuardRun("deploy", mode, attempt, r)
    /\ UNCHANGED <<elVars, gateVars, pipeVars, checkVars, ctxVars>>

\* contract.methods.m().callPure()
GuardCallPure ==
    /\ sbHost.process = "running"
    /\ \E addr \in GuardAddrs :
         /\ sbContracts[addr] # NoContract
         /\ \E attempt \in sbContracts[addr].methods :
              LET r == runGuarded(sbHost, sbContracts[addr].mode, attempt)
              IN /\ sbHost' = r.host
                 /\ sbLast' = GuardRun("callPure", sbContracts[addr].mode, attempt, r)
    /\ UNCHANGED <<sbContracts, elVars, gateVars, pipeVars, checkVars, ctxVars>>

InitSpecGuard == InitPipe /\ IdleCheck /\ InitCtx /\ IdleSys
NextGuard == GuardDeploy \/ GuardCallPure
SpecGuard == InitSpecGuard /\ [][NextGuard]_vars

====
